---- MODULE Spec2Model ----
(***************************************************************************)
(* Model of the cross-process admission controller of the bot:             *)
(*   FileBrowserManager (src/FileBrowserManager.js): the lock file, the    *)
(*   shared ledger document, the browser counters, the profile registry    *)
(*   and the dead-cluster reaper;                                          *)
(*   ProfileManager (src/unnamed/part_006, lines 1542-1878): createProfile,*)
(*   closeProfile and the global cleanup, which call the manager.          *)
(*                                                                         *)
(* Two specifications share the variables:                                 *)
(*   SpecLock  every filesystem call of acquireLock, _handleStaleLock and  *)
(*             releaseLock is one step, so that processes interleave       *)
(*             between any two awaits; the lock is taken by                *)
(*             cleanupDeadClusters;                                        *)
(*   Spec      the ProfileManager workflows (createProfile, closeProfile,  *)
(*             cleanupOldProfiles), one step per call of the service or of *)
(*             a FileBrowserManager method, which either gets the lock and *)
(*             runs to its end or fails to get it.                         *)
(* Time is the value of Date.now() in milliseconds; it advances in steps   *)
(* of a fixed granularity.  config.MAX_CONCURRENT_BROWSERS and             *)
(* Constants.MAX_CONCURRENT_BROWSERS are both read from the environment    *)
(* variable MAX_CONCURRENT_BROWSERS and are one value here.                *)
(***************************************************************************)
EXTENDS Integers, FiniteSets, Sequences, TLC

\* ------------------------------------------------------------------ bounds
NWorkers == 3          \* worker processes
MaxTicks == 2          \* clock steps of SpecLock
LockTickMs == 16000    \* clock granularity of SpecLock, in ms

\* ------------------------------------------------------- program constants
STALE_LOCK_THRESHOLD == 30000

Workers == 1..NWorkers

MaxInvocations == 2   \* the invocations of processWorkFlow of one process followed at a time
Invocations == 1..MaxInvocations
MaxTimers == 1        \* the pending timers of one kind

NoLock == [content |-> 0, mtime |-> -1]

\* constructor: clusterId = process.env.pm_id || process.pid.  pm_id is a
\* string of the environment, process.pid a number.  The last worker of the
\* fleet is started without PM2 and has no pm_id.
pm_id(w) == IF w < NWorkers THEN w - 1 ELSE -1

pid(w) == 4000 + w

clusterId(w) == IF pm_id(w) >= 0 THEN <<"string", pm_id(w)>> ELSE <<"number", pid(w)>>

\* constructor: instanceId = `cluster_${clusterId}_${Date.now()}`, the content
\* of the lock token; one per process.
instanceId(w) == w

\* A property key of a JavaScript object is a string whatever the type of the
\* value used to index it.
PropertyKey(id) == <<"string", id[2]>>

VARIABLES
    now,          \* Date.now()
    lockFile,     \* browser_state.lock: its content and mtime, or NoLock
    ledger,       \* shared_browser_state.json
    pc,           \* where each process stands
    startTime,    \* acquireLock: startTime
    timeout,      \* acquireLock: timeout
    op,           \* the FileBrowserManager method a process is in
    state,        \* the method's local `state`
    result,       \* the value the method returned
    broken,       \* history: the crashed instance whose token the process's stale path removed
    staleBroken,  \* history: some token was removed by a stale path
    retryCount,   \* incrementBrowserCount / decrementBrowserCount: retryCount
    calls,        \* the calls of the manager's operations made so far in SpecOps
    service,      \* the profiles of the Kameleo service: id -> the timestamp in the name
    cpRetry,      \* createProfile: retryCount
    proxy,        \* createProfile: a proxy is passed
    profile,      \* the profile a process has created, holds or cleans up (0: none)
    err,          \* createProfile: the kind of the error caught
    waitStart,    \* waitForAvailableSlot: startTime
    consecutiveFailures, \* waitForAvailableSlot: consecutiveFailures
    todo,         \* cleanupOldProfiles: the old profiles still to clean
    accepted,     \* history: the process holds a slot createProfile accepted
    nInc,         \* history: increments persisted by the last createProfile attempt
    nDec,         \* history: decrements persisted by the last createProfile attempt
    net,          \* history: what that attempt's writes added to browserCount
    faults,       \* the calls that have failed: of the service, of the server, of Playwright, of acquireLock, of the read of the document
    unit,             \* processAccountsInParallel: where each account's promise stands, or the type it settled with
    unitStatus,       \* the status of the result a promise settled with
    timeoutRetryCount,\* processAccount: timeoutRetryCount of each account
    attempts,         \* history: the iterations of the retry loop of processAccount begun for each account
    detected,         \* history: the times _processLogin found the timeout message on the last account
    critical,         \* history: _processLogin returned shouldExit: true for the account
    aborted,          \* abortController.signal.aborted
    shouldExitGlobal, \* processAccountsInParallel: shouldExitGlobal
    completedResults, \* processAccountsInParallel: completedResults
    activePromises,   \* processAccountsInParallel: activePromises, as indexes into accountPromises
    raced,            \* the promise the pending Promise.race has resolved with (-1: none yet)
    loop,             \* where the body of processAccountsInParallel stands
    trigger,          \* history: the account whose 'exit' the race loop observed (-1: none)
    boot,             \* initializeGlobalProfileManager: where each process stands in it
    startCalls,       \* history: the operations of the manager each process called in it
    globalExitFlag,   \* AccountProcessor.globalExitFlag, the static property of the class
    batch,            \* the calls of processAccountsInParallel the process has made
    document,         \* SpecRound: the text of shared_browser_state.json as writeState wrote it
    browserStats,     \* PSNInstance: browserStats.profilesCreated and browserStats.profilesClosed of each process
    held,             \* history: the slots each process acquired through createProfile and has not released
    drained,          \* history: the decrements gracefulShutdown of each process issued
    connected,        \* PSNInstance: connected
    registered,       \* PSNInstance: registered
    isProcessing,     \* PSNInstance: isProcessing
    registering,      \* the register-instance messages the server has still to confirm
    timers,           \* the pending setTimeout callbacks that call processWorkFlow, by the place that set them
    workflow          \* where each invocation of processWorkFlow stands

workflowVars == <<service, cpRetry, proxy, profile, err, waitStart, consecutiveFailures, todo,
                  accepted, nInc, nDec, net, faults>>

schedVars == <<unit, unitStatus, timeoutRetryCount, attempts, detected, critical, aborted, shouldExitGlobal,
               completedResults, activePromises, raced, loop, trigger>>

managerVars == <<now, lockFile, ledger, pc, startTime, timeout, op, state, result, broken,
                 staleBroken, retryCount, calls, workflowVars>>

startVars == <<boot, startCalls>>

batchVars == <<globalExitFlag, batch>>

fileVars == <<document>>

socketVars == <<connected, registered, isProcessing, registering, timers, workflow>>

instanceVars == <<browserStats, held, drained, socketVars>>

vars == <<managerVars, schedVars, startVars, batchVars, fileVars, instanceVars>>

Max(a, b) == IF a >= b THEN a ELSE b

Put(f, k, v) == [x \in (DOMAIN f) \cup {k} |-> IF x = k THEN v ELSE f[x]]

Del(f, K) == [x \in (DOMAIN f) \ K |-> f[x]]

EmptyMap == [x \in {} |-> 0]

\* ----------------------------------------------------------- ledger store
\* The document without lastUpdated, which nothing reads back.
_getDefaultState == [browserCount |-> 0, profiles |-> EmptyMap, clusters |-> EmptyMap]

\* readStateWithoutLock / readState: the parsed document.
readState == ledger

\* shared_browser_state.json has not been written yet.
NoDocument == [exists |-> FALSE, text |-> <<>>]

_incrementStateCounters(s, w, t) ==
    LET k  == PropertyKey(clusterId(w))
        c0 == IF k \in DOMAIN s.clusters THEN s.clusters[k].count ELSE 0
    IN [s EXCEPT !.browserCount = s.browserCount + 1,
                 !.clusters = Put(s.clusters, k, [count |-> c0 + 1, lastActivity |-> t])]

_decrementStateCounters(s, w, t) ==
    LET k == PropertyKey(clusterId(w))
    IN [s EXCEPT !.browserCount = Max(0, s.browserCount - 1),
                 !.clusters = IF k \in DOMAIN s.clusters
                              THEN Put(s.clusters, k,
                                       [count |-> Max(0, s.clusters[k].count - 1),
                                        lastActivity |-> t])
                              ELSE s.clusters]

\* _performClusterCleanup: the loop over Object.entries(state.clusters), which
\* lists integer-like keys in ascending order; `entries` are the keys not yet
\* visited, `all` the snapshot the entries were taken from.
RECURSIVE CleanupLoop(_, _, _, _, _, _)
CleanupLoop(s, all, entries, maxInactiveTime, currentTime, cleanedCount) ==
    IF entries = {}
    THEN [state |-> s, cleanedCount |-> cleanedCount]
    ELSE LET k == CHOOSE x \in entries : \A y \in entries : x[2] <= y[2]
             clusterInfo == all[k]
         IN IF currentTime - clusterInfo.lastActivity > maxInactiveTime
            THEN CleanupLoop(
                   [s EXCEPT !.browserCount = Max(0, s.browserCount - clusterInfo.count),
                             !.clusters = Del(s.clusters, {k}),
                             !.profiles = Del(s.profiles,
                                 {p \in DOMAIN s.profiles : s.profiles[p].clusterId = k})],
                   all, entries \ {k}, maxInactiveTime, currentTime, cleanedCount + 1)
            ELSE CleanupLoop(s, all, entries \ {k}, maxInactiveTime, currentTime, cleanedCount)

_performClusterCleanup(s, maxInactiveTime, currentTime) ==
    CleanupLoop(s, s.clusters, DOMAIN s.clusters, maxInactiveTime, currentTime, 0)

\* ------------------------------------------------------------------ lock
\* acquireLock(timeout): startTime = Date.now(), enter the loop.  The attempt
\* counter, which only sets the length of the sleep and the text of the
\* timeout error, is left out.
acquireLock(w, t) ==
    /\ startTime' = [startTime EXCEPT ![w] = now]
    /\ timeout' = [timeout EXCEPT ![w] = t]
    /\ pc' = [pc EXCEPT ![w] = "acq_write"]

\* The locals of a call that is over.
Forget(w) ==
    /\ startTime' = [startTime EXCEPT ![w] = 0]
    /\ timeout' = [timeout EXCEPT ![w] = 0]
    /\ state' = [state EXCEPT ![w] = _getDefaultState]
    /\ broken' = [broken EXCEPT ![w] = 0]
    /\ op' = [op EXCEPT ![w] = "none"]
    /\ retryCount' = [retryCount EXCEPT ![w] = 0]

\* The method returns to its caller.
Return(w) ==
    /\ pc' = [pc EXCEPT ![w] = "idle"]
    /\ Forget(w)

\* Mutant of acquireLock_writeFile: the token is written without the exclusive
\* flag 'wx', so an existing token is overwritten.
acquireLock_writeFile_NotExclusive(w) ==
    /\ pc[w] \in {"acq_write", "acq_retry"}
    /\ IF now - startTime[w] < timeout[w]
       THEN /\ lockFile' = [content |-> instanceId(w), mtime |-> now]
            /\ pc' = [pc EXCEPT ![w] = "held"]
            /\ UNCHANGED broken
       ELSE /\ pc' = [pc EXCEPT ![w] = "lock_error"]
            /\ broken' = [broken EXCEPT ![w] = 0]
            /\ UNCHANGED lockFile
    /\ UNCHANGED <<now, ledger, startTime, timeout, op, state, result, staleBroken>>
    /\ UNCHANGED workflowVars
    /\ UNCHANGED <<retryCount, calls, consecutiveFailures, schedVars, startVars, batchVars, fileVars, instanceVars>>

\* Mutant of acquireLock_writeFile: the loop has no condition on the time.
acquireLock_writeFile_NoTimeout(w) ==
    /\ pc[w] \in {"acq_write", "acq_retry"}
    /\ IF lockFile = NoLock
       THEN /\ lockFile' = [content |-> instanceId(w), mtime |-> now]
            /\ pc' = [pc EXCEPT ![w] = "held"]
            /\ UNCHANGED broken
       ELSE /\ pc' = [pc EXCEPT ![w] = "acq_stat"]
            /\ broken' = [broken EXCEPT ![w] = 0]
            /\ UNCHANGED lockFile
    /\ UNCHANGED <<now, ledger, startTime, timeout, op, state, result, staleBroken>>
    /\ UNCHANGED workflowVars
    /\ UNCHANGED <<retryCount, calls, consecutiveFailures, schedVars, startVars, batchVars, fileVars, instanceVars>>

\* The loop condition, then fs.writeFile(lockFile, instanceId, {flag: 'wx'}):
\* "acq_write" at the start or after a sleep, "acq_retry" right after the
\* stale path removed a token (continue, without sleeping).
acquireLock_writeFile(w) ==
    /\ pc[w] \in {"acq_write", "acq_retry"}
    /\ IF now - startTime[w] < timeout[w]
       THEN IF lockFile = NoLock
            THEN /\ lockFile' = [content |-> instanceId(w), mtime |-> now]
                 /\ pc' = [pc EXCEPT ![w] = "held"]
                 /\ UNCHANGED broken
            ELSE /\ pc' = [pc EXCEPT ![w] = "acq_stat"]
                 /\ broken' = [broken EXCEPT ![w] = 0]
                 /\ UNCHANGED lockFile
       ELSE /\ pc' = [pc EXCEPT ![w] = "lock_error"]
            /\ broken' = [broken EXCEPT ![w] = 0]
            /\ UNCHANGED lockFile
    /\ UNCHANGED <<now, ledger, startTime, timeout, op, state, result, staleBroken>>
    /\ UNCHANGED workflowVars
    /\ UNCHANGED <<retryCount, calls, consecutiveFailures, schedVars, startVars, batchVars, fileVars, instanceVars>>

\* Mutant of _handleStaleLock_stat: the age test is turned around.
_handleStaleLock_stat_Inverted(w) ==
    /\ pc[w] = "acq_stat"
    /\ pc' = [pc EXCEPT ![w] =
                IF lockFile # NoLock /\ now - lockFile.mtime < STALE_LOCK_THRESHOLD
                THEN "acq_unlink" ELSE "acq_write"]
    /\ UNCHANGED <<now, lockFile, ledger, startTime, timeout, op, state,
                   result, broken, staleBroken>>
    /\ UNCHANGED workflowVars
    /\ UNCHANGED <<retryCount, calls, consecutiveFailures, schedVars, startVars, batchVars, fileVars, instanceVars>>

\* _handleStaleLock: fs.stat and the age test.  A token that is not stale (or
\* no token) returns false, and acquireLock sleeps `delay` before its next
\* iteration.
_handleStaleLock_stat(w) ==
    /\ pc[w] = "acq_stat"
    /\ pc' = [pc EXCEPT ![w] =
                IF lockFile # NoLock /\ now - lockFile.mtime > STALE_LOCK_THRESHOLD
                THEN "acq_unlink" ELSE "acq_write"]
    /\ UNCHANGED <<now, lockFile, ledger, startTime, timeout, op, state,
                   result, broken, staleBroken>>
    /\ UNCHANGED workflowVars
    /\ UNCHANGED <<retryCount, calls, consecutiveFailures, schedVars, startVars, batchVars, fileVars, instanceVars>>

\* _handleStaleLock: fs.unlink of whatever token is there now; when the file
\* is gone the error is swallowed, false is returned and acquireLock sleeps.
_handleStaleLock_unlink(w) ==
    /\ pc[w] = "acq_unlink"
    /\ IF lockFile # NoLock
       THEN /\ lockFile' = NoLock
            /\ staleBroken' = TRUE
            /\ broken' = [broken EXCEPT ![w] =
                             IF pc[lockFile.content] = "dead" THEN lockFile.content ELSE 0]
            /\ pc' = [pc EXCEPT ![w] = "acq_retry"]
       ELSE /\ pc' = [pc EXCEPT ![w] = "acq_write"]
            /\ UNCHANGED <<lockFile, staleBroken, broken>>
    /\ UNCHANGED <<now, ledger, startTime, timeout, op, state, result>>
    /\ UNCHANGED workflowVars
    /\ UNCHANGED <<retryCount, calls, consecutiveFailures, schedVars, startVars, batchVars, fileVars, instanceVars>>

\* releaseLock: fs.readFile and the comparison with the own instance id.
releaseLock_readFile(w) ==
    /\ pc[w] = "rel_read"
    /\ IF lockFile # NoLock /\ lockFile.content = instanceId(w)
       THEN /\ pc' = [pc EXCEPT ![w] = "rel_unlink"]
            /\ UNCHANGED <<startTime, timeout, op, state, broken, retryCount>>
       ELSE Return(w)
    /\ UNCHANGED <<now, lockFile, ledger, result, staleBroken>>
    /\ UNCHANGED workflowVars
    /\ UNCHANGED <<calls, consecutiveFailures, schedVars, startVars, batchVars, fileVars, instanceVars>>

\* releaseLock: fs.unlink; an error (no file) is swallowed.
releaseLock_unlink(w) ==
    /\ pc[w] = "rel_unlink"
    /\ lockFile' = NoLock
    /\ Return(w)
    /\ UNCHANGED <<now, ledger, result, staleBroken>>
    /\ UNCHANGED workflowVars
    /\ UNCHANGED <<calls, consecutiveFailures, schedVars, startVars, batchVars, fileVars, instanceVars>>

\* ------------------------------------------------ calls of the manager
Call(w, o, t) ==
    /\ pc[w] = "idle"
    /\ op' = [op EXCEPT ![w] = o]
    /\ acquireLock(w, t)
    /\ UNCHANGED <<now, lockFile, ledger, state, result, broken, staleBroken>>
    /\ UNCHANGED workflowVars
    /\ UNCHANGED <<retryCount, calls, consecutiveFailures, schedVars, startVars, batchVars, fileVars, instanceVars>>

\* cleanupDeadClusters(maxInactiveTime = 300000): acquireLock(8000)
cleanupDeadClusters(w) == Call(w, "cleanup", 8000)

\* cleanupDeadClusters with the lock held: readState and
\* _performClusterCleanup; nothing cleaned, nothing written.
cleanupDeadClusters_readState(w) ==
    /\ pc[w] = "held"
    /\ op[w] = "cleanup"
    /\ LET r == _performClusterCleanup(readState, 300000, now)
       IN /\ state' = [state EXCEPT ![w] = r.state]
          /\ result' = [result EXCEPT ![w] = r.cleanedCount]
          /\ pc' = [pc EXCEPT ![w] = IF r.cleanedCount > 0 THEN "write" ELSE "rel_read"]
    /\ UNCHANGED <<now, lockFile, ledger, startTime, timeout, op,
                   broken, staleBroken>>
    /\ UNCHANGED workflowVars
    /\ UNCHANGED <<retryCount, calls, consecutiveFailures, schedVars, startVars, batchVars, fileVars, instanceVars>>

\* await this.writeState(state), then finally releaseLock.
writeState(w) ==
    /\ pc[w] = "write"
    /\ ledger' = state[w]
    /\ pc' = [pc EXCEPT ![w] = "rel_read"]
    /\ UNCHANGED <<now, lockFile, startTime, timeout, op, state,
                   result, broken, staleBroken>>
    /\ UNCHANGED workflowVars
    /\ UNCHANGED <<retryCount, calls, consecutiveFailures, schedVars, startVars, batchVars, fileVars, instanceVars>>

\* catch (lockError) of cleanupDeadClusters: return 0.
cleanupDeadClusters_lockError(w) ==
    /\ pc[w] = "lock_error"
    /\ op[w] = "cleanup"
    /\ result' = [result EXCEPT ![w] = 0]
    /\ Return(w)
    /\ UNCHANGED <<now, lockFile, ledger, staleBroken>>
    /\ UNCHANGED workflowVars
    /\ UNCHANGED <<calls, consecutiveFailures, schedVars, startVars, batchVars, fileVars, instanceVars>>

\* The process dies (kill, crash) between acquireLock and the end of
\* releaseLock: the token it wrote stays.
Crash(w) ==
    /\ pc[w] \in {"held", "write", "rel_read", "rel_unlink"}
    /\ pc' = [pc EXCEPT ![w] = "dead"]
    /\ result' = [result EXCEPT ![w] = 0]
    /\ Forget(w)
    /\ UNCHANGED <<now, lockFile, ledger, staleBroken>>
    /\ UNCHANGED workflowVars
    /\ UNCHANGED <<calls, consecutiveFailures, schedVars, startVars, batchVars, fileVars, instanceVars>>

TickLock ==
    /\ now < MaxTicks * LockTickMs
    /\ now' = now + LockTickMs
    /\ UNCHANGED <<lockFile, ledger, pc, startTime, timeout, op, state,
                   result, broken, staleBroken>>
    /\ UNCHANGED workflowVars
    /\ UNCHANGED <<retryCount, calls, consecutiveFailures, schedVars, startVars, batchVars, fileVars, instanceVars>>

\* ---------------------------------------------------- the batch of accounts
\* Bound: the accounts of a batch (requestAccounts(3)).
NAccounts == 3

\* The index of accounts.map.
Accounts == 0..(NAccounts - 1)

\* processAccountsInParallel has been called and accounts.map has run every
\* unit up to its first await: account 0, whose startDelay is 0, is in
\* processAccount, the others sleep their startDelay; the loop awaits its first
\* Promise.race.
InitBatch ==
    /\ unit = [i \in Accounts |-> IF i = 0 THEN "running" ELSE "delay"]
    /\ unitStatus = [i \in Accounts |-> "none"]
    /\ timeoutRetryCount = [i \in Accounts |-> 0]
    /\ attempts = [i \in Accounts |-> 0]
    /\ detected = [i \in Accounts |-> 0]
    /\ critical = [i \in Accounts |-> FALSE]
    /\ aborted = FALSE
    /\ shouldExitGlobal = FALSE
    /\ completedResults = <<>>
    /\ activePromises = [k \in 1..NAccounts |-> k - 1]
    /\ raced = -1
    /\ loop = "race"
    /\ trigger = -1

Init ==
    /\ now = 0
    /\ lockFile = NoLock
    /\ ledger = _getDefaultState
    /\ pc = [w \in Workers |-> "idle"]
    /\ startTime = [w \in Workers |-> 0]
    /\ timeout = [w \in Workers |-> 0]
    /\ op = [w \in Workers |-> "none"]
    /\ state = [w \in Workers |-> _getDefaultState]
    /\ result = [w \in Workers |-> 0]
    /\ broken = [w \in Workers |-> 0]
    /\ staleBroken = FALSE
    /\ retryCount = [w \in Workers |-> 0]
    /\ calls = 0
    /\ service = EmptyMap
    /\ cpRetry = [w \in Workers |-> 0]
    /\ proxy = [w \in Workers |-> FALSE]
    /\ profile = [w \in Workers |-> 0]
    /\ err = [w \in Workers |-> "none"]
    /\ waitStart = [w \in Workers |-> 0]
    /\ consecutiveFailures = [w \in Workers |-> 0]
    /\ todo = [w \in Workers |-> {}]
    /\ accepted = [w \in Workers |-> FALSE]
    /\ nInc = [w \in Workers |-> 0]
    /\ nDec = [w \in Workers |-> 0]
    /\ net = [w \in Workers |-> 0]
    /\ faults = 0
    /\ InitBatch
    /\ boot = [w \in Workers |-> "start"]
    /\ startCalls = [w \in Workers |-> <<>>]
    /\ globalExitFlag = FALSE
    /\ batch = 1
    /\ document = NoDocument
    /\ browserStats = [w \in Workers |-> [profilesCreated |-> 0, profilesClosed |-> 0]]
    /\ held = [w \in Workers |-> 0]
    /\ drained = [w \in Workers |-> 0]
    /\ connected = FALSE
    /\ registered = FALSE
    /\ isProcessing = FALSE
    /\ registering = 0
    /\ timers = [confirmed |-> 0, acknowledged |-> 0, retry |-> 0]
    /\ workflow = [k \in Invocations |-> "none"]

NextLock ==
    \/ TickLock
    \/ \E w \in Workers :
        \/ cleanupDeadClusters(w)
        \/ acquireLock_writeFile(w)
        \/ _handleStaleLock_stat(w)
        \/ _handleStaleLock_unlink(w)
        \/ cleanupDeadClusters_readState(w)
        \/ releaseLock_readFile(w)
        \/ releaseLock_unlink(w)
        \/ cleanupDeadClusters_lockError(w)
        \/ Crash(w)

SpecLock == Init /\ [][NextLock]_vars

\* ------------------------------------------------------- claims on the lock
\* acquireLock returned true and releaseLock has not been called yet.
Holders == {w \in Workers : pc[w] \in {"held", "write"}}

\* C1 as stated: for any interleaving, stale-lock path included, at most one
\* worker at a time has acquired the lock and not yet called releaseLock.
C1_MutualExclusion == Cardinality(Holders) <= 1

\* C1, amended: at most one worker at a time has acquired the lock and not yet
\* called releaseLock, as long as no stale-lock path has removed a token.
C1_MutualExclusionUntilStaleBreak == staleBroken \/ Cardinality(Holders) <= 1

\* A worker holds the lock while another one, refused by the exclusive
\* create, inspects the token.
C1_Witness ==
    /\ ~staleBroken
    /\ \E h \in Workers, c \in Workers :
          /\ pc[h] = "held"
          /\ pc[c] = "acq_stat"
          /\ lockFile.content = instanceId(h)

\* The write attempt of w that directly follows its removal of the stale token
\* of a crashed holder, made before w's timeout has expired.
RetryAfterBreakingDead(w) ==
    /\ pc[w] = "acq_retry"
    /\ broken[w] # 0
    /\ pc[broken[w]] = "dead"
    /\ now - startTime[w] < timeout[w]
    /\ pc'[w] # pc[w]

C10_ReleaseRemovesOwnTokenOnly ==
    [][\A w \in Workers :
         (pc[w] = "rel_unlink" /\ lockFile # NoLock /\ lockFile' = NoLock /\ pc'[w] = "idle")
            => lockFile.content = instanceId(w)]_vars

\* The step in which the unlink of the stale path of w removes a token.
StaleUnlinkStep(w) == pc[w] = "acq_unlink" /\ lockFile # NoLock /\ lockFile' = NoLock

\* C25 as stated: the stale path removes a token only if that token is older
\* than STALE_LOCK_THRESHOLD at the moment it is removed; a token created
\* between the fs.stat and the fs.unlink of a contender is not removed by it.
C25_StalePathRemovesStaleTokensOnly ==
    [][\A w \in Workers :
         StaleUnlinkStep(w) => now - lockFile.mtime > STALE_LOCK_THRESHOLD]_vars

\* ================================================= the admission workflow
\* Bounds of Spec.
NFleet == 2                    \* processes that run workflows in Spec
MAX_CONCURRENT_BROWSERS == 1   \* the configured maximum (environment MAX_CONCURRENT_BROWSERS)
ReapTicks == 1                 \* clock steps of Spec
ReapTickMs == 300001           \* clock granularity of Spec, in ms
MaxFaults == 1                 \* failing calls: of the service, of the server, of Playwright, of acquireLock, of the read of the document

\* The processes of Spec: the last NFleet ones, one of which has no pm_id.
Fleet == {w \in Workers : w > NWorkers - NFleet}

\* cleanupDeadClusters(maxInactiveTime = 300000)
maxInactiveTime == 300000

\* cleanupOldProfiles: fiveMinutesInMs = 5 * 60 * 1000
fiveMinutesInMs == 5 * 60 * 1000

\* waitForAvailableSlot(maxWaitTime = 60000)
maxWaitTime == 60000

\* ProfileManager constructor: maxRetries = Constants.MAX_RETRIES + 1
maxRetries == 2 + 1

\* The ids the Kameleo service hands out.
ProfileIds == 1..NFleet

\* What the errors of the service and of Playwright are to the retry tests of
\* _handleProfileCreationError: "limit" 'HTTP 402' or 'Concurrent browsers
\* limit exceeded', "timeout" 'Timeout ... exceeded', "proxy" 'HTTP 503' or
\* 'connection', "other" anything else.
ServiceErrors == {"limit", "timeout", "proxy", "other"}

ConnectErrors == {"timeout", "proxy", "other"}

\* One more call fails.
Fault ==
    /\ faults < MaxFaults
    /\ faults' = faults + 1

\* getCurrentBrowserCount / canCreateNewBrowser: a read without the lock.
getCurrentBrowserCount == readState.browserCount

canCreateNewBrowser == getCurrentBrowserCount < MAX_CONCURRENT_BROWSERS

\* canCreateNewBrowser when the read or the parse of the document fails:
\* readStateWithoutLock catches the error and returns _getDefaultState().
canCreateNewBrowser_readError == _getDefaultState.browserCount < MAX_CONCURRENT_BROWSERS

\* _createProfileRecord: clusterId is written as the value it is, a string or
\* a number, and JSON keeps the type.
_createProfileRecord(w, t) == [clusterId |-> clusterId(w), createdAt |-> t]

\* _handleCounterOperationError, once acquireLock has thrown for retryCount
\* 0..MAX_RETRIES: the estimate from a read without the lock; nothing is
\* written.
_handleCounterOperationError(estimate) ==
    [persisted |-> FALSE, ledger |-> ledger, result |-> estimate]

\* Mutant of decrementBrowserCount: no floor at zero.
decrementBrowserCount_NoFloor(w) ==
    LET s1 == [readState EXCEPT !.browserCount = readState.browserCount - 1]
    IN { [persisted |-> TRUE, ledger |-> s1, result |-> s1.browserCount],
         _handleCounterOperationError(Max(0, readState.browserCount - 1)) }

\* incrementBrowserCount / decrementBrowserCount, the call with its retries:
\* the lock is obtained, the new state written and the new count returned, or
\* every acquireLock throws and the estimate is returned.
incrementBrowserCount(w) ==
    LET s1 == _incrementStateCounters(readState, w, now)
    IN { [persisted |-> TRUE, ledger |-> s1, result |-> s1.browserCount],
         _handleCounterOperationError(readState.browserCount + 1) }

decrementBrowserCount(w) ==
    LET s1 == _decrementStateCounters(readState, w, now)
    IN { [persisted |-> TRUE, ledger |-> s1, result |-> s1.browserCount],
         _handleCounterOperationError(Max(0, readState.browserCount - 1)) }

\* The effect of outcome o of a counter call of w; dInc,
\* dDec: what the history of the createProfile attempt records for a
\* persisted call.
Counted(w, o, dInc, dDec) ==
    /\ ledger' = o.ledger
    /\ IF o.persisted THEN UNCHANGED faults ELSE Fault
    /\ nInc' = [nInc EXCEPT ![w] = @ + (IF o.persisted THEN dInc ELSE 0)]
    /\ nDec' = [nDec EXCEPT ![w] = @ + (IF o.persisted THEN dDec ELSE 0)]
    /\ net' = [net EXCEPT ![w] =
                 @ + (IF dInc + dDec > 0 THEN o.ledger.browserCount - ledger.browserCount ELSE 0)]

\* The history of an attempt that is over.
Closed(w) ==
    /\ nInc' = [nInc EXCEPT ![w] = 0]
    /\ nDec' = [nDec EXCEPT ![w] = 0]
    /\ net' = [net EXCEPT ![w] = 0]

lockVars == <<lockFile, startTime, timeout, op, state, broken, staleBroken>>

\* _checkGlobalLimits: canCreateNewBrowser, else waitForAvailableSlot, which
\* notes startTime and starts consecutiveFailures at 0.  The read of the
\* document, made without the lock, may fail.
_checkGlobalLimits(w) ==
    /\ \E readError \in BOOLEAN :
          /\ IF readError THEN Fault ELSE UNCHANGED faults
          /\ IF (IF readError THEN canCreateNewBrowser_readError ELSE canCreateNewBrowser)
             THEN /\ pc' = [pc EXCEPT ![w] = "cp_create"]
                  /\ UNCHANGED waitStart
             ELSE /\ pc' = [pc EXCEPT ![w] = "cp_wait"]
                  /\ waitStart' = [waitStart EXCEPT ![w] = now]
    /\ consecutiveFailures' = [consecutiveFailures EXCEPT ![w] = 0]

\* main: the workflow asks for a profile, createProfile(proxy, [], 0).
createProfile(w) ==
    /\ pc[w] = "idle"
    /\ proxy' = [proxy EXCEPT ![w] = TRUE]
    /\ cpRetry' = [cpRetry EXCEPT ![w] = 0]
    /\ result' = [result EXCEPT ![w] = 0]
    /\ _checkGlobalLimits(w)
    /\ UNCHANGED <<now, ledger, lockVars, service, profile, err, todo, accepted,
                   nInc, nDec, net>>
    /\ UNCHANGED <<retryCount, calls, schedVars, startVars, batchVars, fileVars, instanceVars>>

\* waitForAvailableSlot: one iteration of the loop; the sleep leaves the state
\* as it is, the end of maxWaitTime throws 'Timeout waiting for available
\* browser slot after 60000ms'.  Nothing in the try throws (readStateWithoutLock
\* catches the errors of the read and of the parse), so the catch, the only
\* place that increments consecutiveFailures, is never entered.
waitForAvailableSlot(w) ==
    /\ pc[w] = "cp_wait"
    /\ IF now - waitStart[w] < maxWaitTime
       THEN \E readError \in BOOLEAN :
               /\ IF readError THEN Fault ELSE UNCHANGED faults
               /\ IF (IF readError THEN canCreateNewBrowser_readError ELSE canCreateNewBrowser)
                  THEN /\ pc' = [pc EXCEPT ![w] = "cp_create"]
                       /\ waitStart' = [waitStart EXCEPT ![w] = 0]
                       /\ consecutiveFailures' = [consecutiveFailures EXCEPT ![w] = 0]
                       /\ UNCHANGED err
                  ELSE UNCHANGED <<pc, waitStart, consecutiveFailures, err>>
       ELSE /\ pc' = [pc EXCEPT ![w] = "cp_error"]
            /\ waitStart' = [waitStart EXCEPT ![w] = 0]
            /\ err' = [err EXCEPT ![w] = "other"]
            /\ UNCHANGED <<consecutiveFailures, faults>>
    /\ UNCHANGED <<now, ledger, result, lockVars, service, cpRetry, proxy,
                   profile, todo, accepted, nInc, nDec, net>>
    /\ UNCHANGED <<retryCount, calls, schedVars, startVars, batchVars, fileVars, instanceVars>>

\* The ids in use anywhere.
UsedIds ==
    (DOMAIN service) \cup (DOMAIN ledger.profiles)
        \cup {profile[v] : v \in Workers} \cup UNION {todo[v] : v \in Workers}

\* _getFingerprint and client.profile.createProfile: the service creates the
\* profile, named Profile_${Date.now()}_..., or refuses.
client_createProfile(w) ==
    /\ pc[w] = "cp_create"
    /\ \/ /\ ProfileIds \ UsedIds # {}
          /\ LET p == CHOOSE x \in ProfileIds \ UsedIds : \A y \in ProfileIds \ UsedIds : x <= y
             IN /\ service' = Put(service, p, now)
                /\ profile' = [profile EXCEPT ![w] = p]
          /\ pc' = [pc EXCEPT ![w] = "cp_validate"]
          /\ UNCHANGED <<err, faults>>
       \/ /\ Fault
          /\ \E e \in ServiceErrors : err' = [err EXCEPT ![w] = e]
          /\ pc' = [pc EXCEPT ![w] = "cp_error"]
          /\ UNCHANGED <<service, profile>>
    /\ UNCHANGED <<now, ledger, result, lockVars, cpRetry, proxy,
                   waitStart, todo, accepted, nInc, nDec, net>>
    /\ UNCHANGED <<retryCount, calls, consecutiveFailures, schedVars, startVars, batchVars, fileVars, instanceVars>>

\* Mutant of _validateBrowserLimit: the new count is never found too high.
_validateBrowserLimit_NoCheck(w) ==
    /\ pc[w] = "cp_validate"
    /\ \E o \in incrementBrowserCount(w) :
          /\ Counted(w, o, 1, 0)
          /\ pc' = [pc EXCEPT ![w] = "cp_register"]
          /\ accepted' = [accepted EXCEPT ![w] = TRUE]
    /\ UNCHANGED <<now, result, lockVars, service, cpRetry, proxy, profile, err,
                   waitStart, todo>>
    /\ UNCHANGED <<retryCount, calls, consecutiveFailures, schedVars, startVars, batchVars, fileVars, instanceVars>>

\* _validateBrowserLimit: incrementBrowserCount, then the test of newCount.
_validateBrowserLimit(w) ==
    /\ pc[w] = "cp_validate"
    /\ \E o \in incrementBrowserCount(w) :
          /\ Counted(w, o, 1, 0)
          /\ pc' = [pc EXCEPT ![w] =
                      IF o.result > MAX_CONCURRENT_BROWSERS THEN "cp_over" ELSE "cp_register"]
          /\ accepted' = [accepted EXCEPT ![w] = o.result <= MAX_CONCURRENT_BROWSERS]
    /\ UNCHANGED <<now, result, lockVars, service, cpRetry, proxy, profile, err,
                   waitStart, todo>>
    /\ UNCHANGED <<retryCount, calls, consecutiveFailures, schedVars, startVars, batchVars, fileVars, instanceVars>>

\* _validateBrowserLimit, newCount > MAX_CONCURRENT_BROWSERS:
\* decrementBrowserCount, client.profile.deleteProfile(profile.id), then throw
\* new Error("Global browser limit exceeded during creation"); when the
\* profile is gone, deleteProfile throws its own error instead.
_validateBrowserLimit_exceeded(w) ==
    /\ pc[w] = "cp_over"
    /\ \E o \in decrementBrowserCount(w) :
          /\ Counted(w, o, 0, 1)
          /\ IF profile[w] \in DOMAIN service
             THEN /\ service' = Del(service, {profile[w]})
                  /\ err' = [err EXCEPT ![w] = "global_limit"]
             ELSE /\ err' = [err EXCEPT ![w] = "other"]
                  /\ UNCHANGED service
    /\ pc' = [pc EXCEPT ![w] = "cp_error"]
    /\ UNCHANGED <<now, result, lockVars, cpRetry, proxy, profile, waitStart, todo, accepted>>
    /\ UNCHANGED <<retryCount, calls, consecutiveFailures, schedVars, startVars, batchVars, fileVars, instanceVars>>

\* registerProfile: acquireLock(3000), state.profiles[id] = record; a lock
\* error is logged and the profile stays unregistered.
registerProfile(w) ==
    /\ pc[w] = "cp_register"
    /\ \/ /\ ledger' = [ledger EXCEPT !.profiles =
                           Put(ledger.profiles, profile[w], _createProfileRecord(w, now))]
          /\ UNCHANGED faults
       \/ /\ Fault
          /\ UNCHANGED ledger
    /\ pc' = [pc EXCEPT ![w] = "cp_connect"]
    /\ UNCHANGED <<now, result, lockVars, service, cpRetry, proxy, profile, err,
                   waitStart, todo, accepted, nInc, nDec, net>>
    /\ UNCHANGED <<retryCount, calls, consecutiveFailures, schedVars, startVars, batchVars, fileVars, instanceVars>>

\* _connectToProfile and _testConnection; then createProfile returns the
\* profile data to the workflow.
_connectToProfile(w) ==
    /\ pc[w] = "cp_connect"
    /\ \/ /\ pc' = [pc EXCEPT ![w] = "holding"]
          /\ Closed(w)
          /\ UNCHANGED <<err, faults>>
       \/ /\ Fault
          /\ \E e \in ConnectErrors : err' = [err EXCEPT ![w] = e]
          /\ pc' = [pc EXCEPT ![w] = "cp_error"]
          /\ UNCHANGED <<nInc, nDec, net>>
    /\ UNCHANGED <<now, ledger, result, lockVars, service, cpRetry, proxy,
                   profile, waitStart, todo, accepted>>
    /\ UNCHANGED <<retryCount, calls, consecutiveFailures, schedVars, startVars, batchVars, fileVars, instanceVars>>

\* _handleProfileCreationError: decrementBrowserCount, whatever was caught;
\* then _cleanupFailedProfile, which finds no err.profile.
_handleProfileCreationError(w) ==
    /\ pc[w] = "cp_error"
    /\ \E o \in decrementBrowserCount(w) : Counted(w, o, 0, 1)
    /\ pc' = [pc EXCEPT ![w] = "cp_caught"]
    /\ accepted' = [accepted EXCEPT ![w] = FALSE]
    /\ UNCHANGED <<now, result, lockVars, service, cpRetry, proxy, profile, err,
                   waitStart, todo>>
    /\ UNCHANGED <<retryCount, calls, consecutiveFailures, schedVars, startVars, batchVars, fileVars, instanceVars>>

_shouldRetryForBrowserLimit(w) ==
    err[w] \in {"limit", "global_limit"} /\ cpRetry[w] < maxRetries

_shouldRetryForTimeout(w) == err[w] = "timeout" /\ cpRetry[w] < maxRetries

_shouldRetryForProxy(w) == proxy[w] /\ err[w] = "proxy" /\ cpRetry[w] < maxRetries

\* _handleProfileCreationError, the end of the attempt: a retry, that is the
\* sleep and createProfile(..., retryCount + 1) (without the proxy after a
\* proxy error) up to its _checkGlobalLimits, or throw err to the workflow.
_handleProfileCreationError_retry(w) ==
    /\ pc[w] = "cp_caught"
    /\ err' = [err EXCEPT ![w] = "none"]
    /\ profile' = [profile EXCEPT ![w] = 0]
    /\ Closed(w)
    /\ IF _shouldRetryForBrowserLimit(w) \/ _shouldRetryForTimeout(w)
       THEN /\ cpRetry' = [cpRetry EXCEPT ![w] = @ + 1]
            /\ _checkGlobalLimits(w)
            /\ UNCHANGED proxy
       ELSE IF _shouldRetryForProxy(w)
       THEN /\ cpRetry' = [cpRetry EXCEPT ![w] = @ + 1]
            /\ proxy' = [proxy EXCEPT ![w] = FALSE]
            /\ _checkGlobalLimits(w)
       ELSE /\ pc' = [pc EXCEPT ![w] = "idle"]
            /\ cpRetry' = [cpRetry EXCEPT ![w] = 0]
            /\ proxy' = [proxy EXCEPT ![w] = FALSE]
            /\ UNCHANGED <<waitStart, consecutiveFailures, faults>>
    /\ UNCHANGED <<now, ledger, result, lockVars, service, todo, accepted>>
    /\ UNCHANGED <<retryCount, calls, schedVars, startVars, batchVars, fileVars, instanceVars>>

\* unregisterProfile: acquireLock(3000), delete state.profiles[id] when it is
\* there.
unregisterProfile(s, p) == [s EXCEPT !.profiles = Del(s.profiles, {p})]

\* closeProfileSafely / closeProfile: context.close,
\* client.profile.deleteProfile and unregisterProfile (a lock error of which
\* is logged); an error of the first two (the profile is gone, or the call
\* fails) goes to the catch.
closeProfile(w) ==
    /\ pc[w] \in {"holding", "wf_close"}
    /\ \/ /\ profile[w] \in DOMAIN service
          /\ service' = Del(service, {profile[w]})
          /\ \/ /\ ledger' = unregisterProfile(readState, profile[w])
                /\ UNCHANGED faults
             \/ /\ Fault
                /\ UNCHANGED ledger
       \/ /\ profile[w] \notin DOMAIN service
          /\ UNCHANGED <<service, ledger, faults>>
       \/ /\ Fault
          /\ UNCHANGED <<service, ledger>>
    /\ pc' = [pc EXCEPT ![w] = "close_dec"]
    /\ UNCHANGED <<now, result, lockVars, cpRetry, proxy, profile, err, waitStart,
                   todo, accepted, nInc, nDec, net>>
    /\ UNCHANGED <<retryCount, calls, consecutiveFailures, schedVars, startVars, batchVars, fileVars, instanceVars>>

\* closeProfile: decrementBrowserCount, at the end of the try or in the catch.
closeProfile_decrement(w) ==
    /\ pc[w] = "close_dec"
    /\ \E o \in decrementBrowserCount(w) : Counted(w, o, 0, 0)
    /\ pc' = [pc EXCEPT ![w] = "idle"]
    /\ accepted' = [accepted EXCEPT ![w] = FALSE]
    /\ profile' = [profile EXCEPT ![w] = 0]
    /\ UNCHANGED <<now, result, lockVars, service, cpRetry, proxy, err, waitStart, todo>>
    /\ UNCHANGED <<retryCount, calls, consecutiveFailures, schedVars, startVars, batchVars, fileVars, instanceVars>>

\* _calculateProfileAge: from the registered createdAt, else from the
\* timestamp in the name.
_calculateProfileAge(p, activeProfiles, currentTime) ==
    IF p \in DOMAIN activeProfiles
    THEN currentTime - activeProfiles[p].createdAt
    ELSE currentTime - service[p]

\* cleanupOldProfiles (the periodic timer of bot.js): listProfiles,
\* getAllActiveProfiles, currentTime; the profiles older than five minutes are
\* the ones the loop cleans.
cleanupOldProfiles(w) ==
    /\ pc[w] = "idle"
    /\ todo' = [todo EXCEPT ![w] =
                  {p \in DOMAIN service :
                      _calculateProfileAge(p, readState.profiles, now) > fiveMinutesInMs}]
    /\ result' = [result EXCEPT ![w] = 0]
    /\ pc' = [pc EXCEPT ![w] = "cl_next"]
    /\ UNCHANGED <<now, ledger, lockVars, service, cpRetry, proxy,
                   profile, err, waitStart, accepted, nInc, nDec, net, faults>>
    /\ UNCHANGED <<retryCount, calls, consecutiveFailures, schedVars, startVars, batchVars, fileVars, instanceVars>>

\* _cleanupSingleProfile of the next old profile: deleteProfile and
\* unregisterProfile; when deleteProfile throws (the profile is gone, or the
\* call fails), the profile is skipped.
_cleanupSingleProfile(w) ==
    /\ pc[w] = "cl_next"
    /\ todo[w] # {}
    /\ LET p == CHOOSE x \in todo[w] : \A y \in todo[w] : x <= y
       IN /\ todo' = [todo EXCEPT ![w] = @ \ {p}]
          /\ \/ /\ p \in DOMAIN service
                /\ service' = Del(service, {p})
                /\ \/ /\ ledger' = unregisterProfile(readState, p)
                      /\ UNCHANGED faults
                   \/ /\ Fault
                      /\ UNCHANGED ledger
                /\ pc' = [pc EXCEPT ![w] = "cl_dec"]
             \/ /\ p \notin DOMAIN service
                /\ UNCHANGED <<service, ledger, pc, faults>>
             \/ /\ Fault
                /\ UNCHANGED <<service, ledger, pc>>
    /\ UNCHANGED <<now, result, lockVars, cpRetry, proxy, profile, err,
                   waitStart, accepted, nInc, nDec, net>>
    /\ UNCHANGED <<retryCount, calls, consecutiveFailures, schedVars, startVars, batchVars, fileVars, instanceVars>>

\* _cleanupSingleProfile: decrementBrowserCount, by the cleaning process,
\* whoever owns the profile.
_cleanupSingleProfile_decrement(w) ==
    /\ pc[w] = "cl_dec"
    /\ \E o \in decrementBrowserCount(w) : Counted(w, o, 0, 0)
    /\ pc' = [pc EXCEPT ![w] = "cl_next"]
    /\ UNCHANGED <<now, result, lockVars, service, cpRetry, proxy, profile, err,
                   waitStart, todo, accepted>>
    /\ UNCHANGED <<retryCount, calls, consecutiveFailures, schedVars, startVars, batchVars, fileVars, instanceVars>>

\* cleanupOldProfiles, after the loop: cleanupDeadClusters(), in one step:
\* acquireLock(8000), readState, _performClusterCleanup, writeState when
\* something was cleaned, releaseLock; or acquireLock throws.
cleanupOldProfiles_cleanupDeadClusters(w) ==
    /\ pc[w] = "cl_next"
    /\ todo[w] = {}
    /\ \/ LET r == _performClusterCleanup(readState, maxInactiveTime, now)
          IN /\ ledger' = IF r.cleanedCount > 0 THEN r.state ELSE ledger
             /\ result' = [result EXCEPT ![w] = r.cleanedCount]
             /\ pc' = [pc EXCEPT ![w] = "idle"]
             /\ UNCHANGED <<op, faults>>
       \/ /\ Fault
          /\ pc' = [pc EXCEPT ![w] = "lock_error"]
          /\ op' = [op EXCEPT ![w] = "cleanup"]
          /\ UNCHANGED <<ledger, result>>
    /\ UNCHANGED <<now, lockFile, startTime, timeout, state, broken,
                   staleBroken, service, cpRetry, proxy, profile, err, waitStart,
                   todo, accepted, nInc, nDec, net>>
    /\ UNCHANGED <<retryCount, calls, consecutiveFailures, schedVars, startVars, batchVars, fileVars, instanceVars>>

\* processWorkFlow: `let profileData = null`, handed to _executeWorkflowSteps
\* and to _handleWorkflowError.  _executeWorkflowSteps assigns the profile to
\* its own parameter, so the variable of processWorkFlow stays null.
processWorkFlow_profileData(w) == 0

\* The workflow is over (finally: isProcessing = false, _finalizeWorkflow); the
\* process keeps no reference to the profile.
processWorkFlow_finally(w) ==
    /\ pc' = [pc EXCEPT ![w] = "idle"]
    /\ profile' = [profile EXCEPT ![w] = 0]

\* _handleWorkflowError(error, profileData, ...): closeProfileSafely when
\* profileData is set, then the workflow is over.
_handleWorkflowError(w, profileData) ==
    IF profileData # 0
    THEN /\ pc' = [pc EXCEPT ![w] = "wf_close"]
         /\ UNCHANGED profile
    ELSE processWorkFlow_finally(w)

\* _executeWorkflowSteps with the profile created: _requestAccountsStep gets
\* no accounts ('no-accounts-available', or the request times out) and returns
\* null, and _executeWorkflowSteps returns.
_requestAccountsStep_null(w) ==
    /\ pc[w] = "holding"
    /\ Fault
    /\ processWorkFlow_finally(w)
    /\ UNCHANGED <<now, ledger, result, lockVars, service, cpRetry, proxy,
                   err, waitStart, todo, accepted, nInc, nDec, net>>
    /\ UNCHANGED <<retryCount, calls, consecutiveFailures, schedVars, startVars, batchVars, fileVars, instanceVars>>

\* _executeWorkflowSteps with the profile created: the accounts are processed
\* and _submitResultsStep throws 'Results submission timeout'; the catch of
\* processWorkFlow calls _handleWorkflowError with its own profileData.
_submitResultsStep_timeout(w) ==
    /\ pc[w] = "holding"
    /\ Fault
    /\ _handleWorkflowError(w, processWorkFlow_profileData(w))
    /\ UNCHANGED <<now, ledger, result, lockVars, service, cpRetry, proxy,
                   err, waitStart, todo, accepted, nInc, nDec, net>>
    /\ UNCHANGED <<retryCount, calls, consecutiveFailures, schedVars, startVars, batchVars, fileVars, instanceVars>>

\* The process is killed while its session is open.
Exit(w) ==
    /\ pc[w] = "holding"
    /\ pc' = [pc EXCEPT ![w] = "dead"]
    /\ accepted' = [accepted EXCEPT ![w] = FALSE]
    /\ profile' = [profile EXCEPT ![w] = 0]
    /\ UNCHANGED <<now, ledger, result, lockVars, service, cpRetry, proxy,
                   err, waitStart, todo, nInc, nDec, net, faults>>
    /\ UNCHANGED <<retryCount, calls, consecutiveFailures, schedVars, startVars, batchVars, fileVars, instanceVars>>

Tick ==
    /\ now < ReapTicks * ReapTickMs
    /\ now' = now + ReapTickMs
    /\ UNCHANGED <<ledger, pc, result, lockVars, workflowVars>>
    /\ UNCHANGED <<retryCount, calls, consecutiveFailures, schedVars, startVars, batchVars, fileVars, instanceVars>>

Next ==
    \/ Tick
    \/ \E w \in Fleet :
        \/ createProfile(w)
        \/ waitForAvailableSlot(w)
        \/ client_createProfile(w)
        \/ _validateBrowserLimit(w)
        \/ _validateBrowserLimit_exceeded(w)
        \/ registerProfile(w)
        \/ _connectToProfile(w)
        \/ _handleProfileCreationError(w)
        \/ _handleProfileCreationError_retry(w)
        \/ closeProfile(w)
        \/ closeProfile_decrement(w)
        \/ _requestAccountsStep_null(w)
        \/ _submitResultsStep_timeout(w)
        \/ cleanupOldProfiles(w)
        \/ _cleanupSingleProfile(w)
        \/ _cleanupSingleProfile_decrement(w)
        \/ cleanupOldProfiles_cleanupDeadClusters(w)
        \/ cleanupDeadClusters_lockError(w)
        \/ Exit(w)

Spec == Init /\ [][Next]_vars

\* ------------------------------------------------ claims on the admission
\* The slots held: acquisitions that createProfile reported as accepted and
\* that have not been released yet.
HeldSlots == {w \in Fleet : accepted[w]}

\* C2 as stated: at every instant the number of slots held across all workers
\* is at most MAX_CONCURRENT_BROWSERS.
C2_HeldSlotsWithinMax == Cardinality(HeldSlots) <= MAX_CONCURRENT_BROWSERS

\* The step of w in which _validateBrowserLimit accepts the new count.
AcceptStep(w) == pc[w] = "cp_validate" /\ pc'[w] = "cp_register"

\* C3: browserCount is never negative, and right after an acquisition that was
\* reported accepted it is at most MAX_CONCURRENT_BROWSERS.
C3_CountNeverNegativeAndWithinMaxOnAccept ==
    [][/\ ledger'.browserCount >= 0
       /\ \A w \in Fleet :
             AcceptStep(w) => ledger'.browserCount <= MAX_CONCURRENT_BROWSERS]_vars

\* An accepted acquisition has just been written and fills the last slot.
C3_Witness ==
    \E w \in Fleet :
        /\ pc[w] = "cp_register"
        /\ accepted[w]
        /\ nInc[w] = 1
        /\ ledger.browserCount = MAX_CONCURRENT_BROWSERS

\* C4 as stated: once an attempt that _validateBrowserLimit rejected has
\* returned, its own writes have left browserCount as it was, and none of them
\* persisted a count above MAX_CONCURRENT_BROWSERS.
C4_RejectedAttemptLeavesLedgerUnchanged ==
    \A w \in Fleet :
        (pc[w] = "cp_caught" /\ err[w] = "global_limit")
            => (net[w] = 0 /\ nInc[w] = 0)

\* A step of w that returns from decrementBrowserCount.
DecrementStep(w) ==
    /\ pc[w] \in {"cp_over", "cp_error", "close_dec", "cl_dec"}
    /\ pc'[w] # pc[w]

CountOf(s, w) ==
    IF PropertyKey(clusterId(w)) \in DOMAIN s.clusters
    THEN s.clusters[PropertyKey(clusterId(w))].count
    ELSE 0

\* C5: a release, also one made without an acquisition, takes one from
\* browserCount and from the caller's count or leaves them at 0, never below;
\* no call is refused.
C5_ReleaseFloorsAtZero ==
    [][\A w \in Fleet :
         /\ DecrementStep(w) =>
               /\ ledger'.browserCount >= 0
               /\ CountOf(ledger', w) >= 0
               /\ ledger'.browserCount \in {ledger.browserCount, Max(0, ledger.browserCount - 1)}
               /\ CountOf(ledger', w) \in {CountOf(ledger, w), Max(0, CountOf(ledger, w) - 1)}
         /\ (DecrementStep(w) /\ faults' = faults) =>
               ledger'.browserCount = Max(0, ledger.browserCount - 1)]_vars

\* A decrement was persisted by an attempt that had made no increment, and
\* browserCount stayed at 0.
C5_Witness ==
    \E w \in Fleet :
        /\ pc[w] = "cp_caught"
        /\ nInc[w] = 0
        /\ nDec[w] = 1
        /\ net[w] = 0
        /\ ledger.browserCount = 0

\* The step of w in which cleanupDeadClusters runs with the lock and returns.
ReapStep(w) == pc[w] = "cl_next" /\ todo[w] = {} /\ pc'[w] = "idle"

\* The workers whose last activity is older than the inactivity threshold.
SilentWorkers ==
    {k \in DOMAIN ledger.clusters : now - ledger.clusters[k].lastActivity > maxInactiveTime}

\* C6 as stated: a reaper pass that finds exactly one silent worker lowers
\* browserCount by exactly that worker's count, removes its entry, returns 1
\* and leaves the other workers' entries as they were.
C6_ReapSubtractsExactlyTheDeadCount ==
    [][\A w \in Fleet :
         (ReapStep(w) /\ Cardinality(SilentWorkers) = 1) =>
            LET k == CHOOSE x \in SilentWorkers : TRUE
            IN /\ ledger'.browserCount = ledger.browserCount - ledger.clusters[k].count
               /\ k \notin DOMAIN ledger'.clusters
               /\ result'[w] = 1
               /\ \A j \in (DOMAIN ledger.clusters) \ {k} :
                     /\ j \in DOMAIN ledger'.clusters
                     /\ ledger'.clusters[j] = ledger.clusters[j]]_vars

\* C7 as stated: after a reaper pass has removed a worker, no profile whose
\* clusterId is that worker's remains in the registry.
C7_NoProfileOfReapedWorkerRemains ==
    [][\A w \in Fleet :
         ReapStep(w) =>
            \A k \in (DOMAIN ledger.clusters) \ (DOMAIN ledger'.clusters) :
               \A p \in DOMAIN ledger'.profiles :
                  PropertyKey(ledger'.profiles[p].clusterId) # k]_vars

RECURSIVE SumCounts(_, _)
SumCounts(clusters, K) ==
    IF K = {} THEN 0
    ELSE LET k == CHOOSE x \in K : TRUE
         IN clusters[k].count + SumCounts(clusters, K \ {k})

\* C8 as stated: right after any reaper pass, browserCount equals the sum of
\* the counts of the workers that remain.
C8_CountIsSumAfterReap ==
    [][\A w \in Fleet :
         ReapStep(w) =>
            ledger'.browserCount = SumCounts(ledger'.clusters, DOMAIN ledger'.clusters)]_vars

\* C35 as stated: a pass of cleanupDeadClusters by one process leaves the entry
\* and the count of another process that is alive and holds a slot as they
\* were, however long ago that process made its last increment or decrement.
C35_ReaperSparesLiveHolders ==
    [][\A v \in Fleet :
         ReapStep(v) =>
            \A w \in Fleet \ {v} :
               (pc[w] = "holding" /\ accepted[w] /\ CountOf(ledger, w) > 0) =>
                  /\ PropertyKey(clusterId(w)) \in DOMAIN ledger'.clusters
                  /\ CountOf(ledger', w) = CountOf(ledger, w)]_vars

\* ================================================ the scheduler of a batch
\* processAccountsInParallel (src/main.js) and AccountProcessor.processAccount
\* (src/unnamed/part_007).  Two specifications:
\*   SpecSched  the executor is whatever object the instance holds as
\*              accountProcessor: processAccount resolves to a result with a
\*              status and, or not, shouldExit, or rejects;
\*   SpecUnit   the executor is AccountProcessor, one step per attempt of
\*              _processLogin.
\* What the units do once processAccountsInParallel has returned does not
\* reach its caller and is left out.
MAX_TIMEOUT_RETRIES == 2

\* The statuses of a result of processAccount that matter to the summary:
\* 'good' for the ones counted as successes, 'error' and 'timeout-error' for
\* the ones counted as errors.
ExecutorStatuses == {"good", "error"}

\* The statuses _determineLoginStatus gives.
LoginStatuses == {"good", "unknown"}

\* successCount / errorCount: the statuses counted as errors.
ErrorStatuses == {"error", "server-error", "timeout-error"}

\* result.shouldExit || false: a field that is not there is undefined.
shouldExit(r) == IF "shouldExit" \in DOMAIN r THEN r.shouldExit ELSE FALSE

\* processAccount: if (finalResult.shouldExit) return finalResult.result,
\* else break and return finalResult.
processAccount(finalResult) ==
    IF shouldExit(finalResult) THEN finalResult.result ELSE finalResult

\* The value the promise of a unit resolves with when processAccount has
\* resolved with r: accountResult and the type.
accountPromise(r) ==
    [type |-> IF shouldExit(r) THEN "exit" ELSE "completed", status |-> r.status]

\* catch (accountError), for an error that is no AbortError.  The signal of
\* abortController is handed to no call, so nothing rejects with an AbortError.
accountPromise_catch == [type |-> "error", status |-> "server-error"]

Settled(i) == unit[i] \in {"exit", "completed", "error", "aborted"}

\* The promise of unit i settles with value v; a Promise.race that is pending
\* resolves with the first promise that settles.
Settle(i, v) ==
    /\ unit' = [unit EXCEPT ![i] = v.type]
    /\ unitStatus' = [unitStatus EXCEPT ![i] = v.status]
    /\ raced' = IF loop = "race" /\ raced = -1 THEN i ELSE raced

\* Mutant of startDelay: the signal is not looked at.
startDelay_SignalIgnored(i) ==
    /\ loop # "returned"
    /\ unit[i] = "delay"
    /\ unit' = [unit EXCEPT ![i] = "running"]
    /\ UNCHANGED <<unitStatus, raced>>
    /\ UNCHANGED <<timeoutRetryCount, attempts, detected, critical, aborted, shouldExitGlobal, completedResults,
                   activePromises, loop, trigger>>
    /\ UNCHANGED <<managerVars, startVars, batchVars, fileVars, instanceVars>>

\* The end of the sleep of startDelay: the unit returns 'aborted' when the
\* signal is aborted, else it calls processAccount.
startDelay(i) ==
    /\ loop # "returned"
    /\ unit[i] = "delay"
    /\ IF aborted
       THEN Settle(i, [type |-> "aborted", status |-> "none"])
       ELSE /\ unit' = [unit EXCEPT ![i] = "running"]
            /\ UNCHANGED <<unitStatus, raced>>
    /\ UNCHANGED <<timeoutRetryCount, attempts, detected, critical, aborted, shouldExitGlobal, completedResults,
                   activePromises, loop, trigger>>
    /\ UNCHANGED <<managerVars, startVars, batchVars, fileVars, instanceVars>>

\* SpecSched: processAccount of unit i resolves or rejects.
accountProcessor_processAccount(i) ==
    /\ loop # "returned"
    /\ unit[i] = "running"
    /\ \/ \E st \in ExecutorStatuses :
             \/ Settle(i, accountPromise([status |-> st]))
             \/ Settle(i, accountPromise([status |-> st, shouldExit |-> TRUE]))
       \/ Settle(i, accountPromise_catch)
    /\ UNCHANGED <<timeoutRetryCount, attempts, detected, critical, aborted, shouldExitGlobal, completedResults,
                   activePromises, loop, trigger>>
    /\ UNCHANGED <<managerVars, startVars, batchVars, fileVars, instanceVars>>

\* SpecUnit: _createAndLoadPage of AccountProcessor.processAccount fails, which
\* the outer catch turns into a result of status 'error'.
_createAndLoadPage_fails(i) ==
    /\ loop # "returned"
    /\ unit[i] = "running"
    /\ timeoutRetryCount[i] = 0
    /\ Settle(i, accountPromise([status |-> "error"]))
    /\ UNCHANGED <<timeoutRetryCount, attempts, detected, critical, aborted, shouldExitGlobal, completedResults,
                   activePromises, loop, trigger>>
    /\ UNCHANGED <<managerVars, startVars, batchVars, fileVars, instanceVars>>

\* Mutant of processAccount_retryErr: timeoutRetryCount is not incremented.
processAccount_retryErr_NoCount(i) ==
    /\ UNCHANGED timeoutRetryCount
    /\ IF timeoutRetryCount[i] + 1 > MAX_TIMEOUT_RETRIES
       THEN Settle(i, accountPromise(processAccount([status |-> "timeout-error"])))
       ELSE UNCHANGED <<unit, unitStatus, raced>>

\* The catch (retryErr) of processAccount: timeoutRetryCount++, and the result
\* 'timeout-error' once it is above MAX_TIMEOUT_RETRIES.
processAccount_retryErr(i) ==
    /\ timeoutRetryCount' = [timeoutRetryCount EXCEPT ![i] = @ + 1]
    /\ IF timeoutRetryCount[i] + 1 > MAX_TIMEOUT_RETRIES
       THEN Settle(i, accountPromise(processAccount([status |-> "timeout-error"])))
       ELSE UNCHANGED <<unit, unitStatus, raced>>

\* SpecUnit: one iteration of the loop of processAccount: the page setup (or
\* refresh) and _processLogin, which
\*   returns the status it read on the page,
\*   or finds the timeout message on the last account of the batch: it returns
\*     {shouldExit: true, result} once timeoutRetryCount has reached
\*     MAX_TIMEOUT_RETRIES and throws 'Timeout detected, retrying...' before,
\*   or throws anything else (a frame that does not come up, a closed page).
_processLogin(i) ==
    /\ loop # "returned"
    /\ unit[i] = "running"
    /\ \/ /\ \E st \in LoginStatuses :
                Settle(i, accountPromise(processAccount([status |-> st])))
          /\ UNCHANGED <<timeoutRetryCount, critical, detected>>
       \/ /\ NAccounts = i + 1
          /\ detected' = [detected EXCEPT ![i] = @ + 1]
          /\ IF timeoutRetryCount[i] >= MAX_TIMEOUT_RETRIES
             THEN /\ Settle(i, accountPromise(processAccount(
                                  [shouldExit |-> TRUE,
                                   result |-> [status |-> "timeout-error"]])))
                  /\ critical' = [critical EXCEPT ![i] = TRUE]
                  /\ UNCHANGED timeoutRetryCount
             ELSE /\ processAccount_retryErr(i)
                  /\ UNCHANGED critical
       \/ /\ processAccount_retryErr(i)
          /\ UNCHANGED <<critical, detected>>
    /\ attempts' = [attempts EXCEPT ![i] = @ + 1]
    /\ UNCHANGED <<aborted, shouldExitGlobal, completedResults, activePromises, loop, trigger>>
    /\ UNCHANGED <<managerVars, startVars, batchVars, fileVars, instanceVars>>

\* Mutant of splice: findIndex does not find the promise, nothing is removed.
splice_NotFound(active, i) == active

\* activePromises.splice(promiseIndex, 1)
splice(active, i) == SelectSeq(active, LAMBDA x : x # i)

\* Promise.race(active) on promises some of which have settled resolves with
\* the first of them in the order of the array; u are the types of the units.
Promise_race(active, u) ==
    LET K == {k \in 1..Len(active) : u[active[k]] \in {"exit", "completed", "error", "aborted"}}
    IN IF K = {} THEN -1 ELSE active[CHOOSE k \in K : \A j \in K : k <= j]

\* The entry pushed to completedResults for unit i: result.result.
accountResult(i) == [tabIndex |-> i, status |-> unitStatus[i]]

\* The end of an iteration of the race loop that did not break: the loop
\* condition, then the next Promise.race, or the end of the loop.
raceLoop_continue(active) ==
    IF Len(active) > 0
    THEN /\ loop' = "race"
         /\ raced' = Promise_race(active, unit)
    ELSE /\ loop' = "allSettled"
         /\ raced' = -1

\* Mutant of raceLoop: an 'exit' is handled as a 'completed' is.
raceLoop_ExitIgnored ==
    /\ loop = "race"
    /\ raced # -1
    /\ activePromises' = splice(activePromises, raced)
    /\ IF unit[raced] \in {"exit", "completed", "error"}
       THEN completedResults' = Append(completedResults, accountResult(raced))
       ELSE UNCHANGED completedResults
    /\ raceLoop_continue(splice(activePromises, raced))
    /\ UNCHANGED <<shouldExitGlobal, aborted, trigger>>
    /\ UNCHANGED <<unit, unitStatus, timeoutRetryCount, attempts, detected, critical>>
    /\ UNCHANGED <<managerVars, startVars, batchVars, fileVars, instanceVars>>

\* Mutant of raceLoop: the result of an 'error' is not pushed.
raceLoop_ErrorDropped ==
    /\ loop = "race"
    /\ raced # -1
    /\ activePromises' = splice(activePromises, raced)
    /\ IF unit[raced] = "exit"
       THEN /\ shouldExitGlobal' = TRUE
            /\ aborted' = TRUE
            /\ completedResults' = Append(completedResults, accountResult(raced))
            /\ trigger' = raced
            /\ loop' = "sleep"
            /\ raced' = -1
       ELSE /\ IF unit[raced] = "completed"
               THEN completedResults' = Append(completedResults, accountResult(raced))
               ELSE UNCHANGED completedResults
            /\ raceLoop_continue(splice(activePromises, raced))
            /\ UNCHANGED <<shouldExitGlobal, aborted, trigger>>
    /\ UNCHANGED <<unit, unitStatus, timeoutRetryCount, attempts, detected, critical>>
    /\ UNCHANGED <<managerVars, startVars, batchVars, fileVars, instanceVars>>

\* Mutant of raceLoop: an 'error' stops the batch as an 'exit' does.
raceLoop_ErrorAborts ==
    /\ loop = "race"
    /\ raced # -1
    /\ activePromises' = splice(activePromises, raced)
    /\ IF unit[raced] \in {"exit", "error"}
       THEN /\ shouldExitGlobal' = TRUE
            /\ aborted' = TRUE
            /\ completedResults' = Append(completedResults, accountResult(raced))
            /\ trigger' = raced
            /\ loop' = "sleep"
            /\ raced' = -1
       ELSE /\ IF unit[raced] = "completed"
               THEN completedResults' = Append(completedResults, accountResult(raced))
               ELSE UNCHANGED completedResults
            /\ raceLoop_continue(splice(activePromises, raced))
            /\ UNCHANGED <<shouldExitGlobal, aborted, trigger>>
    /\ UNCHANGED <<unit, unitStatus, timeoutRetryCount, attempts, detected, critical>>
    /\ UNCHANGED <<managerVars, startVars, batchVars, fileVars, instanceVars>>

\* The body of the race loop once Promise.race has resolved with the value of
\* unit `raced`: the splice, then the branch on result.type.  An 'exit' sets
\* shouldExitGlobal, aborts, pushes the result and breaks, and the function
\* sleeps 1000 ms; a 'completed' or an 'error' pushes the result; an 'aborted'
\* pushes nothing.
raceLoop ==
    /\ loop = "race"
    /\ raced # -1
    /\ activePromises' = splice(activePromises, raced)
    /\ IF unit[raced] = "exit"
       THEN /\ shouldExitGlobal' = TRUE
            /\ aborted' = TRUE
            /\ completedResults' = Append(completedResults, accountResult(raced))
            /\ trigger' = raced
            /\ loop' = "sleep"
            /\ raced' = -1
       ELSE /\ IF unit[raced] \in {"completed", "error"}
               THEN completedResults' = Append(completedResults, accountResult(raced))
               ELSE UNCHANGED completedResults
            /\ raceLoop_continue(splice(activePromises, raced))
            /\ UNCHANGED <<shouldExitGlobal, aborted, trigger>>
    /\ UNCHANGED <<unit, unitStatus, timeoutRetryCount, attempts, detected, critical>>
    /\ UNCHANGED <<managerVars, startVars, batchVars, fileVars, instanceVars>>

\* remainingResults.forEach: the 'completed' values of the promises that were
\* still active, in the order of the array.
RECURSIVE remainingResults(_)
remainingResults(active) ==
    IF active = <<>> THEN <<>>
    ELSE (IF unit[Head(active)] = "completed" THEN <<accountResult(Head(active))>> ELSE <<>>)
            \o remainingResults(Tail(active))

\* The loop ended without an exit: Promise.allSettled(activePromises), then the
\* return.
Promise_allSettled ==
    /\ loop = "allSettled"
    /\ \A k \in 1..Len(activePromises) : Settled(activePromises[k])
    /\ completedResults' = completedResults \o remainingResults(activePromises)
    /\ loop' = "returned"
    /\ UNCHANGED <<unit, unitStatus, timeoutRetryCount, attempts, detected, critical, aborted, shouldExitGlobal,
                   activePromises, raced, trigger>>
    /\ UNCHANGED <<managerVars, startVars, batchVars, fileVars, instanceVars>>

\* Mutant of sleep_1000: the promises still active are awaited before the
\* return.
sleep_1000_AwaitsTheRest ==
    /\ loop = "sleep"
    /\ \A k \in 1..Len(activePromises) : Settled(activePromises[k])
    /\ loop' = "returned"
    /\ UNCHANGED <<unit, unitStatus, timeoutRetryCount, attempts, detected, critical, aborted, shouldExitGlobal,
                   completedResults, activePromises, raced, trigger>>
    /\ UNCHANGED <<managerVars, startVars, batchVars, fileVars, instanceVars>>

\* The loop ended by an exit: HumanBehavior.sleep(1000), then the return.
sleep_1000 ==
    /\ loop = "sleep"
    /\ loop' = "returned"
    /\ UNCHANGED <<unit, unitStatus, timeoutRetryCount, attempts, detected, critical, aborted, shouldExitGlobal,
                   completedResults, activePromises, raced, trigger>>
    /\ UNCHANGED <<managerVars, startVars, batchVars, fileVars, instanceVars>>

\* The value processAccountsInParallel returns.
processAccountsInParallel ==
    LET errors == SelectSeq(completedResults, LAMBDA r : r.status \in ErrorStatuses)
    IN [finalResults |-> completedResults,
        exitTriggered |-> shouldExitGlobal,
        totalProcessed |-> Len(completedResults),
        successCount |-> Len(completedResults) - Len(errors),
        errorCount |-> Len(errors)]

NextSched ==
    \/ raceLoop
    \/ Promise_allSettled
    \/ sleep_1000
    \/ \E i \in Accounts :
        \/ startDelay(i)
        \/ accountProcessor_processAccount(i)

SpecSched == Init /\ [][NextSched]_vars

\* SpecGrace: SpecSched with the timer of the grace period running out.  The
\* units are under no fairness: a unit may never settle.
SpecGrace == Init /\ [][NextSched]_vars /\ WF_vars(sleep_1000)

NextUnit ==
    \/ raceLoop
    \/ Promise_allSettled
    \/ \E i \in Accounts :
        \/ startDelay(i)
        \/ _createAndLoadPage_fails(i)
        \/ _processLogin(i)

SpecUnit == Init /\ [][NextUnit]_vars

\* SpecAttempts: SpecUnit with every unit going on: an iteration of the retry
\* loop of processAccount comes to its end, every wait in it having a timeout.
SpecAttempts ==
    /\ Init
    /\ [][NextUnit]_vars
    /\ \A i \in Accounts : WF_vars(_processLogin(i))

\* ------------------------------------------------ claims on the scheduler
\* The positions of completedResults that hold a result of unit i.
EntriesOf(i) == {k \in 1..Len(completedResults) : completedResults[k].tabIndex = i}

\* C11: processAccountsInParallel returns exitTriggered = true if and only if
\* the promise of some unit resolved with type 'exit'; the unit that triggered
\* it is then the only 'exit' the race loop observed, and its result is the
\* last of the finalResults returned.
C11_ExitTriggeredIffSomeExit ==
    loop = "returned" =>
        LET r == processAccountsInParallel
        IN /\ r.exitTriggered <=> (\E i \in Accounts : unit[i] = "exit")
           /\ r.exitTriggered =>
                 /\ trigger \in Accounts
                 /\ unit[trigger] = "exit"
                 /\ Len(r.finalResults) > 0
                 /\ r.finalResults[Len(r.finalResults)] = accountResult(trigger)
                 /\ \A k \in 1..Len(r.finalResults) :
                       unit[r.finalResults[k].tabIndex] = "exit"
                          => r.finalResults[k].tabIndex = trigger

\* The batch has returned cancelled by unit 1, after the result of unit 0, and
\* the last unit had resolved with an 'exit' too, which the loop never saw.
C11_Witness ==
    /\ loop = "returned"
    /\ shouldExitGlobal
    /\ trigger = 1
    /\ unit[0] = "completed"
    /\ unit[NAccounts - 1] = "exit"
    /\ completedResults = <<accountResult(0), accountResult(1)>>

\* C12 as stated: a batch cancelled by an 'exit' returns exactly one entry for
\* every account.
C12_CancelledBatchHasEntryForEveryInput ==
    (loop = "returned" /\ shouldExitGlobal) =>
        \A i \in Accounts : Cardinality(EntriesOf(i)) = 1

\* C13 as stated: in a batch cancelled by an 'exit', every unit that had
\* settled as 'completed' or 'error' when the function returns is in the
\* results with the status it produced.
C13_SettledUnitsAreInTheResults ==
    (loop = "returned" /\ shouldExitGlobal) =>
        \A i \in Accounts :
            unit[i] \in {"completed", "error"} =>
                \E k \in 1..Len(completedResults) : completedResults[k] = accountResult(i)

\* C14 as stated: the results returned are in the order of the accounts,
\* whatever the order in which the units completed.
C14_ResultsInInputOrder ==
    loop = "returned" =>
        \A k \in 1..Len(completedResults) : \A l \in 1..Len(completedResults) :
            k < l => completedResults[k].tabIndex < completedResults[l].tabIndex

\* The race loop takes the value of a unit that failed without an exit: the
\* executor threw, or it resolved with an error status.
ObservesFailure ==
    /\ loop = "race"
    /\ raced # -1
    /\ activePromises' # activePromises
    /\ \/ unit[raced] = "error"
       \/ unit[raced] = "completed" /\ unitStatus[raced] \in ErrorStatuses

\* C15: a unit whose executor throws, or returns a failure without shouldExit,
\* does not stop the batch: the loop that takes its value leaves
\* shouldExitGlobal and the signal as they are, pushes an entry with an error
\* status for it and goes on; and a batch in which no unit resolves with an
\* 'exit' returns, not cancelled, one entry for every unit with the status
\* the unit produced.
C15_FailureOfAUnitIsIsolated ==
    /\ [][ObservesFailure =>
            /\ shouldExitGlobal' = shouldExitGlobal
            /\ aborted' = aborted
            /\ loop' # "sleep"
            /\ completedResults' = Append(completedResults, accountResult(raced))
            /\ accountResult(raced).status \in ErrorStatuses]_vars
    /\ [](loop = "returned" /\ (\A i \in Accounts : unit[i] # "exit") =>
            /\ ~processAccountsInParallel.exitTriggered
            /\ \A i \in Accounts :
                  /\ Cardinality(EntriesOf(i)) = 1
                  /\ \E k \in EntriesOf(i) : completedResults[k] = accountResult(i)
            /\ processAccountsInParallel.errorCount =
                  Cardinality({i \in Accounts : unitStatus[i] \in ErrorStatuses}))

\* The first unit threw, the batch went on and has returned the results of all
\* units, not cancelled.
C15_Witness ==
    /\ loop = "returned"
    /\ ~shouldExitGlobal
    /\ unit[0] = "error"
    /\ completedResults[1] = accountResult(0)
    /\ \A i \in Accounts \ {0} : unit[i] = "completed" /\ unitStatus[i] = "good"
    /\ Len(completedResults) = NAccounts

\* C16 as stated: when _processLogin finds the timeout on the last account and
\* returns shouldExit: true, the promise of the unit resolves with type 'exit',
\* the signal is aborted and the batch returns exitTriggered = true.
C16_CriticalExitReachesTheScheduler ==
    /\ \A i \in Accounts : (critical[i] /\ Settled(i)) => unit[i] = "exit"
    /\ (loop = "returned" /\ \E i \in Accounts : critical[i]) =>
            (aborted /\ processAccountsInParallel.exitTriggered)

\* C26: once abortController.abort() has been called, a unit whose startDelay
\* ends returns {type: 'aborted'} and does not call processAccount: no unit
\* goes from its delay to processAccount while the signal is aborted, and a
\* unit that has returned 'aborted' has never been in processAccount.
C26_NoUnitStartsAfterTheSignal ==
    [][\A i \in Accounts :
         /\ (unit[i] = "delay" /\ aborted /\ unit'[i] # unit[i]) => unit'[i] = "aborted"
         /\ unit'[i] = "aborted" => unit[i] \in {"delay", "aborted"}]_vars

\* The signal is aborted and a unit whose delay ended after it has returned
\* 'aborted'.
C26_Witness ==
    /\ aborted
    /\ \E i \in Accounts : unit[i] = "aborted"

\* C27: once the race loop has observed an 'exit', processAccountsInParallel
\* races no more, pushes nothing more and returns when the sleep of 1000 ms is
\* over, whether the promises still active ever settle or not.
C27_ReturnsAfterTheGracePeriod ==
    /\ [][loop = "sleep" =>
            /\ loop' \in {"sleep", "returned"}
            /\ completedResults' = completedResults
            /\ activePromises' = activePromises]_vars
    /\ (loop = "sleep") ~> (loop = "returned")

\* processAccountsInParallel has returned after an exit while a unit is still
\* in processAccount or in its delay.
C27_Witness ==
    /\ loop = "returned"
    /\ shouldExitGlobal
    /\ \E i \in Accounts : unit[i] \in {"delay", "running"}

\* C28: when no unit resolves with type 'exit', processAccountsInParallel
\* returns only once every unit has settled, with exitTriggered = false, and
\* finalResults holds exactly one entry for each account: the result its unit
\* resolved with, of type 'completed' or 'error'.
C28_WithoutExitEveryUnitIsReported ==
    (loop = "returned" /\ \A i \in Accounts : unit[i] # "exit") =>
        /\ ~processAccountsInParallel.exitTriggered
        /\ processAccountsInParallel.totalProcessed = NAccounts
        /\ \A i \in Accounts :
              /\ unit[i] \in {"completed", "error"}
              /\ Cardinality(EntriesOf(i)) = 1
              /\ \A k \in EntriesOf(i) : completedResults[k] = accountResult(i)

\* A batch has returned without an exit, one unit having failed and another
\* having completed.
C28_Witness ==
    /\ loop = "returned"
    /\ ~shouldExitGlobal
    /\ \E i, j \in Accounts : unit[i] = "error" /\ unit[j] = "completed"

\* C29: an iteration of the race loop removes from activePromises exactly the
\* promise whose value it has just awaited, a settled one, and pushes at most
\* the result of that unit; so the result of a unit is pushed at most once and
\* the loop makes at most NAccounts iterations, the iterations made being the
\* promises removed.
C29_EachIterationRemovesTheUnitObserved ==
    /\ [][activePromises' # activePromises =>
            /\ loop = "race"
            /\ raced # -1
            /\ Settled(raced)
            /\ \E k \in 1..Len(activePromises) : activePromises[k] = raced
            /\ activePromises' = splice(activePromises, raced)
            /\ Len(activePromises') = Len(activePromises) - 1
            /\ \/ completedResults' = completedResults
               \/ completedResults' = Append(completedResults, accountResult(raced))]_vars
    /\ [](\A i \in Accounts : Cardinality(EntriesOf(i)) <= 1)
    /\ [](Len(completedResults) <= NAccounts - Len(activePromises))

\* The loop has made NAccounts iterations and pushed a result in each.
C29_Witness ==
    /\ loop = "allSettled"
    /\ activePromises = <<>>
    /\ Len(completedResults) = NAccounts

\* processAccount of unit i has been called and has not returned.
InProcessAccount(i) == unit[i] = "running"

\* C30 as stated: processAccount makes at most MAX_TIMEOUT_RETRIES + 1
\* attempts and always ends with an outcome, which is the result of its first
\* attempt that succeeded or the outcome of the retries being used up.
C30_AttemptsBoundedTwoOutcomes ==
    /\ [](\A i \in Accounts :
            /\ attempts[i] <= MAX_TIMEOUT_RETRIES + 1
            /\ Settled(i) =>
                  \/ unitStatus[i] \in LoginStatuses /\ attempts[i] >= 1
                  \/ unitStatus[i] = "timeout-error" /\ attempts[i] = MAX_TIMEOUT_RETRIES + 1)
    /\ \A i \in Accounts : InProcessAccount(i) ~> Settled(i)

\* C30, amended: processAccount makes at most MAX_TIMEOUT_RETRIES + 1 attempts
\* and always ends with an outcome: the result of its first attempt that
\* succeeded, the 'timeout-error' of the retries being used up, or, when the
\* page could not be created and loaded, an 'error' with no attempt made.
C30_AttemptsBoundedThreeOutcomes ==
    /\ [](\A i \in Accounts :
            /\ attempts[i] <= MAX_TIMEOUT_RETRIES + 1
            /\ Settled(i) =>
                  \/ /\ unitStatus[i] \in LoginStatuses
                     /\ attempts[i] = timeoutRetryCount[i] + 1
                  \/ unitStatus[i] = "timeout-error" /\ attempts[i] = MAX_TIMEOUT_RETRIES + 1
                  \/ unitStatus[i] = "error" /\ attempts[i] = 0)
    /\ \A i \in Accounts : InProcessAccount(i) ~> Settled(i)

\* A unit has used up its retries, and another has succeeded on a retry.
C30_Witness ==
    \E i, j \in Accounts :
        /\ unitStatus[i] = "timeout-error"
        /\ attempts[i] = MAX_TIMEOUT_RETRIES + 1
        /\ unitStatus[j] \in LoginStatuses
        /\ attempts[j] > 1

\* C31 as stated: a critical exit is never retried.  Whenever _processLogin
\* has found the timeout message on the last account of the batch, it has found
\* it once, it has returned shouldExit, and the unit has settled: no attempt
\* follows the detection.
C31_CriticalExitAtFirstDetection ==
    \A i \in Accounts :
        detected[i] > 0 => (detected[i] = 1 /\ critical[i] /\ Settled(i))

\* -------------------------------------------------- claims on the workflow
\* C17 as stated: a workflow that got its profile from createProfile has
\* released the slot (decrementBrowserCount, through closeProfile) when it is
\* over, whichever way it ends.
C17_WorkflowReleasesItsSlot ==
    [][\A w \in Fleet :
         (pc[w] \in {"holding", "wf_close", "close_dec"} /\ pc'[w] = "idle")
            => (pc[w] = "close_dec" /\ ~accepted'[w])]_vars

\* The step of w in which waitForAvailableSlot returns true.
WaitReturns(w) == pc[w] = "cp_wait" /\ pc'[w] = "cp_create"

\* C19 as stated: waitForAvailableSlot returns true while no slot is free, on
\* account of a failed read, only once consecutiveFailures is above 5.
C19_FailsOpenOnlyAfterRepeatedErrors ==
    [][\A w \in Fleet :
         (WaitReturns(w) /\ ~canCreateNewBrowser /\ faults' # faults)
            => consecutiveFailures[w] > 5]_vars

\* C38 as stated: when an attempt of createProfile has failed and its error
\* handling is over, the decrements it persisted are as many as the increments
\* it persisted, whatever the point of the failure.
C38_FailedAttemptReleasesWhatItAcquired ==
    \A w \in Fleet :
        pc[w] = "cp_caught" => nDec[w] = nInc[w]

\* C39 as stated: an attempt that _validateBrowserLimit let through, and
\* that goes on to register and hold its profile, has persisted its increment.
C39_AcceptedOnlyIfPersisted ==
    \A w \in Fleet :
        (pc[w] = "cp_register" /\ accepted[w]) => nInc[w] = 1

\* ===================================== the operations of the manager, by step
\* SpecOps: the six operations of FileBrowserManager that write the document,
\* every filesystem call one step, called by the first NOps processes in any
\* order.  The process with pm_id '0' is the one that calls resetCounters
\* (initializeGlobalProfileManager of src/bot.js).
NOps == 2        \* processes of SpecOps
MaxCount == 2    \* the browserCount at which SpecOps calls incrementBrowserCount no more
MaxCalls == 2    \* the calls of operations made in a run of SpecOps

OpsWorkers == 1..NOps

\* RETRY_CONFIG.MAX_RETRIES
RETRY_CONFIG_MAX_RETRIES == 3

_getLockTimeout(r) == 5000 + (r * 2000)

CounterOps == {"increment", "decrement"}

\* One more operation is called.
NewCall ==
    /\ calls < MaxCalls
    /\ calls' = calls + 1

\* A method is entered with retryCount r: acquireLock(t).
Enter(w, o, t, r) ==
    /\ op' = [op EXCEPT ![w] = o]
    /\ retryCount' = [retryCount EXCEPT ![w] = r]
    /\ acquireLock(w, t)

\* incrementBrowserCount(): acquireLock(_getLockTimeout(0))
incrementBrowserCount_acquireLock(w) ==
    /\ pc[w] = "idle"
    /\ ledger.browserCount < MaxCount
    /\ Enter(w, "increment", _getLockTimeout(0), 0)
    /\ UNCHANGED <<now, lockFile, ledger, state, result, broken, staleBroken>>
    /\ NewCall
    /\ UNCHANGED <<workflowVars, schedVars, startVars, batchVars, fileVars, instanceVars>>

\* decrementBrowserCount(): acquireLock(_getLockTimeout(0))
decrementBrowserCount_acquireLock(w) ==
    /\ pc[w] = "idle"
    /\ Enter(w, "decrement", _getLockTimeout(0), 0)
    /\ UNCHANGED <<now, lockFile, ledger, state, result, broken, staleBroken>>
    /\ NewCall
    /\ UNCHANGED <<workflowVars, schedVars, startVars, batchVars, fileVars, instanceVars>>

\* registerProfile(profileId, profileName): acquireLock(3000); the profile of
\* process w has the id w.
registerProfile_acquireLock(w) ==
    /\ pc[w] = "idle"
    /\ Enter(w, "register", 3000, 0)
    /\ UNCHANGED <<now, lockFile, ledger, state, result, broken, staleBroken>>
    /\ NewCall
    /\ UNCHANGED <<workflowVars, schedVars, startVars, batchVars, fileVars, instanceVars>>

\* unregisterProfile(profileId): acquireLock(3000)
unregisterProfile_acquireLock(w) ==
    /\ pc[w] = "idle"
    /\ Enter(w, "unregister", 3000, 0)
    /\ UNCHANGED <<now, lockFile, ledger, state, result, broken, staleBroken>>
    /\ NewCall
    /\ UNCHANGED <<workflowVars, schedVars, startVars, batchVars, fileVars, instanceVars>>

\* resetCounters(): acquireLock(10000), by the process whose clusterId is '0'.
resetCounters_acquireLock(w) ==
    /\ pc[w] = "idle"
    /\ clusterId(w) = <<"string", 0>>
    /\ Enter(w, "reset", 10000, 0)
    /\ UNCHANGED <<now, lockFile, ledger, state, result, broken, staleBroken>>
    /\ NewCall
    /\ UNCHANGED <<workflowVars, schedVars, startVars, batchVars, fileVars, instanceVars>>

\* cleanupDeadClusters(): acquireLock(8000)
cleanupDeadClusters_acquireLock(w) ==
    /\ pc[w] = "idle"
    /\ Enter(w, "cleanup", 8000, 0)
    /\ UNCHANGED <<now, lockFile, ledger, state, result, broken, staleBroken>>
    /\ NewCall
    /\ UNCHANGED <<workflowVars, schedVars, startVars, batchVars, fileVars, instanceVars>>

\* fs.writeFile(lockFile, instanceId, {flag: 'wx'}) fails with an error that
\* is not EEXIST (EACCES, ENOSPC, ...): acquireLock rethrows it.
acquireLock_writeFile_error(w) ==
    /\ pc[w] \in {"acq_write", "acq_retry"}
    /\ now - startTime[w] < timeout[w]
    /\ pc' = [pc EXCEPT ![w] = "lock_error"]
    /\ broken' = [broken EXCEPT ![w] = 0]
    /\ UNCHANGED <<now, lockFile, ledger, startTime, timeout, op, state, result,
                   staleBroken, retryCount>>
    /\ UNCHANGED <<calls, workflowVars, schedVars, startVars, batchVars, fileVars, instanceVars>>

\* Mutant of counter_readState: the critical section is also entered by a
\* process that found the token of another process in the lock file.
counter_readState_WithoutLock(w) ==
    /\ pc[w] \in {"held", "acq_stat"}
    /\ op[w] \in CounterOps
    /\ LET s1 == IF op[w] = "increment"
                 THEN _incrementStateCounters(readState, w, now)
                 ELSE _decrementStateCounters(readState, w, now)
       IN /\ state' = [state EXCEPT ![w] = s1]
          /\ result' = [result EXCEPT ![w] = s1.browserCount]
    /\ pc' = [pc EXCEPT ![w] = "write"]
    /\ UNCHANGED <<now, lockFile, ledger, startTime, timeout, op, broken, staleBroken,
                   retryCount>>
    /\ UNCHANGED <<calls, workflowVars, schedVars, startVars, batchVars, fileVars, instanceVars>>

\* incrementBrowserCount / decrementBrowserCount with the lock: readState and
\* _incrementStateCounters / _decrementStateCounters; newCount is what the
\* call returns after writeState and releaseLock.
counter_readState(w) ==
    /\ pc[w] = "held"
    /\ op[w] \in CounterOps
    /\ LET s1 == IF op[w] = "increment"
                 THEN _incrementStateCounters(readState, w, now)
                 ELSE _decrementStateCounters(readState, w, now)
       IN /\ state' = [state EXCEPT ![w] = s1]
          /\ result' = [result EXCEPT ![w] = s1.browserCount]
    /\ pc' = [pc EXCEPT ![w] = "write"]
    /\ UNCHANGED <<now, lockFile, ledger, startTime, timeout, op, broken, staleBroken,
                   retryCount>>
    /\ UNCHANGED <<calls, workflowVars, schedVars, startVars, batchVars, fileVars, instanceVars>>

\* registerProfile with the lock: readState, state.profiles[profileId] = record.
registerProfile_readState(w) ==
    /\ pc[w] = "held"
    /\ op[w] = "register"
    /\ state' = [state EXCEPT ![w] =
                    [readState EXCEPT !.profiles =
                        Put(readState.profiles, w, _createProfileRecord(w, now))]]
    /\ pc' = [pc EXCEPT ![w] = "write"]
    /\ UNCHANGED <<now, lockFile, ledger, startTime, timeout, op, result, broken,
                   staleBroken, retryCount>>
    /\ UNCHANGED <<calls, workflowVars, schedVars, startVars, batchVars, fileVars, instanceVars>>

\* unregisterProfile with the lock: readState; the delete and the write only
\* when the profile is there.
unregisterProfile_readState(w) ==
    /\ pc[w] = "held"
    /\ op[w] = "unregister"
    /\ IF w \in DOMAIN readState.profiles
       THEN /\ state' = [state EXCEPT ![w] = unregisterProfile(readState, w)]
            /\ pc' = [pc EXCEPT ![w] = "write"]
       ELSE /\ pc' = [pc EXCEPT ![w] = "rel_read"]
            /\ UNCHANGED state
    /\ UNCHANGED <<now, lockFile, ledger, startTime, timeout, op, result, broken,
                   staleBroken, retryCount>>
    /\ UNCHANGED <<calls, workflowVars, schedVars, startVars, batchVars, fileVars, instanceVars>>

\* resetCounters with the lock: state = _getDefaultState().
resetCounters_getDefaultState(w) ==
    /\ pc[w] = "held"
    /\ op[w] = "reset"
    /\ state' = [state EXCEPT ![w] = _getDefaultState]
    /\ pc' = [pc EXCEPT ![w] = "write"]
    /\ UNCHANGED <<now, lockFile, ledger, startTime, timeout, op, result, broken,
                   staleBroken, retryCount>>
    /\ UNCHANGED <<calls, workflowVars, schedVars, startVars, batchVars, fileVars, instanceVars>>

\* Mutant of counter_lockError: once the retries are used up, the estimate is
\* written to the document.
counter_lockError_Persists(w) ==
    /\ pc[w] = "lock_error"
    /\ op[w] \in CounterOps
    /\ IF retryCount[w] < RETRY_CONFIG_MAX_RETRIES
       THEN /\ Enter(w, op[w], _getLockTimeout(retryCount[w] + 1), retryCount[w] + 1)
            /\ UNCHANGED <<state, result, broken, ledger>>
       ELSE /\ result' = [result EXCEPT ![w] =
                            IF op[w] = "increment"
                            THEN readState.browserCount + 1
                            ELSE Max(0, readState.browserCount - 1)]
            /\ ledger' = [ledger EXCEPT !.browserCount =
                            IF op[w] = "increment"
                            THEN readState.browserCount + 1
                            ELSE Max(0, readState.browserCount - 1)]
            /\ Return(w)
    /\ UNCHANGED <<now, lockFile, staleBroken>>
    /\ UNCHANGED <<calls, workflowVars, schedVars, startVars, batchVars, fileVars, instanceVars>>

\* catch (lockError) of incrementBrowserCount / decrementBrowserCount:
\* _handleCounterOperationError, which calls the method again with
\* retryCount + 1 while retryCount < MAX_RETRIES and then returns the estimate
\* made from a read without the lock.
counter_lockError(w) ==
    /\ pc[w] = "lock_error"
    /\ op[w] \in CounterOps
    /\ IF retryCount[w] < RETRY_CONFIG_MAX_RETRIES
       THEN /\ Enter(w, op[w], _getLockTimeout(retryCount[w] + 1), retryCount[w] + 1)
            /\ UNCHANGED <<state, result, broken>>
       ELSE /\ result' = [result EXCEPT ![w] =
                            IF op[w] = "increment"
                            THEN _handleCounterOperationError(readState.browserCount + 1).result
                            ELSE _handleCounterOperationError(
                                     Max(0, readState.browserCount - 1)).result]
            /\ Return(w)
    /\ UNCHANGED <<now, lockFile, ledger, staleBroken>>
    /\ UNCHANGED <<calls, workflowVars, schedVars, startVars, batchVars, fileVars, instanceVars>>

\* Mutant of registerProfile_lockError: the catch throws the error on.
registerProfile_lockError_Rethrow(w) ==
    /\ pc[w] = "lock_error"
    /\ op[w] = "register"
    /\ pc' = [pc EXCEPT ![w] = "threw"]
    /\ UNCHANGED <<now, lockFile, ledger, startTime, timeout, op, state, result, broken,
                   staleBroken, retryCount>>
    /\ UNCHANGED <<calls, workflowVars, schedVars, startVars, batchVars, fileVars, instanceVars>>

\* catch (lockError) of registerProfile: the error is logged.
registerProfile_lockError(w) ==
    /\ pc[w] = "lock_error"
    /\ op[w] = "register"
    /\ Return(w)
    /\ UNCHANGED <<now, lockFile, ledger, result, staleBroken>>
    /\ UNCHANGED <<calls, workflowVars, schedVars, startVars, batchVars, fileVars, instanceVars>>

\* catch (lockError) of unregisterProfile: the error is logged.
unregisterProfile_lockError(w) ==
    /\ pc[w] = "lock_error"
    /\ op[w] = "unregister"
    /\ Return(w)
    /\ UNCHANGED <<now, lockFile, ledger, result, staleBroken>>
    /\ UNCHANGED <<calls, workflowVars, schedVars, startVars, batchVars, fileVars, instanceVars>>

\* catch (lockError) of resetCounters: _forceResetCounters, which writes
\* _getDefaultState() and swallows an error of the write.
_forceResetCounters(w) ==
    /\ pc[w] = "lock_error"
    /\ op[w] = "reset"
    /\ ledger' = _getDefaultState
    /\ Return(w)
    /\ UNCHANGED <<now, lockFile, result, staleBroken>>
    /\ UNCHANGED <<calls, workflowVars, schedVars, startVars, batchVars, fileVars, instanceVars>>

NextOps ==
    \/ TickLock
    \/ \E w \in OpsWorkers :
        \/ incrementBrowserCount_acquireLock(w)
        \/ decrementBrowserCount_acquireLock(w)
        \/ registerProfile_acquireLock(w)
        \/ unregisterProfile_acquireLock(w)
        \/ resetCounters_acquireLock(w)
        \/ cleanupDeadClusters_acquireLock(w)
        \/ acquireLock_writeFile(w)
        \/ acquireLock_writeFile_error(w)
        \/ _handleStaleLock_stat(w)
        \/ _handleStaleLock_unlink(w)
        \/ counter_readState(w)
        \/ registerProfile_readState(w)
        \/ unregisterProfile_readState(w)
        \/ resetCounters_getDefaultState(w)
        \/ cleanupDeadClusters_readState(w)
        \/ writeState(w)
        \/ releaseLock_readFile(w)
        \/ releaseLock_unlink(w)
        \/ counter_lockError(w)
        \/ registerProfile_lockError(w)
        \/ unregisterProfile_lockError(w)
        \/ cleanupDeadClusters_lockError(w)
        \/ _forceResetCounters(w)
        \/ Crash(w)

SpecOps == Init /\ [][NextOps]_vars

\* ---------------------------------------------- claims on the operations
\* A step of w that writes the document: writeState, or _forceResetCounters.
WritesLedger(w) ==
    \/ pc[w] = "write" /\ pc'[w] = "rel_read"
    \/ pc[w] = "lock_error" /\ op[w] = "reset" /\ pc'[w] = "idle"

\* C18 as stated: every write of the document is made by a process whose
\* token is in the lock file at the moment of the write.
C18_WritesOnlyUnderLock ==
    [][\A w \in OpsWorkers :
         WritesLedger(w) => (lockFile # NoLock /\ lockFile.content = instanceId(w))]_vars

\* C20: an operation whose acquireLock has thrown - the timeout has run out
\* on a token that stayed, or the exclusive create failed otherwise - does not
\* throw on: a counter operation is called again with retryCount + 1 up to
\* MAX_RETRIES and then returns the estimate without writing, registerProfile
\* and unregisterProfile return without writing, cleanupDeadClusters returns
\* 0, resetCounters writes the default state without the lock; and no call
\* ends with an exception in its caller.
C20_LockErrorEndsInFallback ==
    /\ [][\A w \in OpsWorkers :
            (pc[w] = "lock_error" /\ pc'[w] # pc[w]) =>
               \/ /\ op[w] \in CounterOps
                  /\ retryCount[w] < RETRY_CONFIG_MAX_RETRIES
                  /\ pc'[w] = "acq_write"
                  /\ op'[w] = op[w]
                  /\ retryCount'[w] = retryCount[w] + 1
                  /\ timeout'[w] = _getLockTimeout(retryCount[w] + 1)
                  /\ ledger' = ledger
               \/ /\ op[w] \in CounterOps
                  /\ retryCount[w] = RETRY_CONFIG_MAX_RETRIES
                  /\ pc'[w] = "idle"
                  /\ ledger' = ledger
                  /\ result'[w] = IF op[w] = "increment"
                                  THEN ledger.browserCount + 1
                                  ELSE Max(0, ledger.browserCount - 1)
               \/ /\ op[w] \in {"register", "unregister"}
                  /\ pc'[w] = "idle"
                  /\ ledger' = ledger
               \/ /\ op[w] = "cleanup"
                  /\ pc'[w] = "idle"
                  /\ result'[w] = 0
                  /\ ledger' = ledger
               \/ /\ op[w] = "reset"
                  /\ pc'[w] = "idle"
                  /\ ledger' = _getDefaultState]_vars
    /\ [](\A w \in OpsWorkers : pc[w] # "threw")

\* A counter operation has used all its retries and is about to return the
\* estimate, its last acquireLock having run out on the token of another
\* process that holds the lock.
C20_Witness ==
    \E w \in OpsWorkers, h \in OpsWorkers :
        /\ pc[w] = "lock_error"
        /\ op[w] \in CounterOps
        /\ retryCount[w] = RETRY_CONFIG_MAX_RETRIES
        /\ now - startTime[w] >= timeout[w]
        /\ pc[h] \in {"held", "write"}
        /\ lockFile # NoLock
        /\ lockFile.content = instanceId(h)

\* A process is inside acquireLock, on its way to the lock or to the error.
Acquiring(w) == pc[w] \in {"acq_write", "acq_retry", "acq_stat", "acq_unlink", "lock_error"}

\* C34: a counter operation that does not get the lock is called again at most
\* MAX_RETRIES = 3 times, each time with a longer lock timeout (5000 ms and
\* 2000 ms more for each retry), and then returns the estimate made from the
\* count read without the lock, one more for an increment and one less, not
\* below 0, for a decrement; none of its steps without the lock writes the
\* document.
C34_LockFailureRetriesThenEstimates ==
    /\ [][\A w \in OpsWorkers :
            /\ (op[w] \in CounterOps /\ Acquiring(w) /\ pc'[w] # pc[w]) => ledger' = ledger
            /\ (op[w] \in CounterOps /\ pc[w] = "lock_error" /\ pc'[w] # pc[w]) =>
                  IF retryCount[w] < 3
                  THEN /\ pc'[w] = "acq_write"
                       /\ op'[w] = op[w]
                       /\ retryCount'[w] = retryCount[w] + 1
                       /\ timeout'[w] = timeout[w] + 2000
                  ELSE /\ pc'[w] = "idle"
                       /\ result'[w] = IF op[w] = "increment"
                                       THEN ledger.browserCount + 1
                                       ELSE Max(0, ledger.browserCount - 1)]_vars
    /\ [](\A w \in OpsWorkers :
            (op[w] \in CounterOps /\ Acquiring(w)) =>
               /\ retryCount[w] \in 0..3
               /\ timeout[w] = 5000 + 2000 * retryCount[w])

\* A decrement has failed to get the lock four times, the last time with the
\* timeout of 11000 ms, while the document counts a browser: it is about to
\* return the estimate.
C34_Witness ==
    \E w \in OpsWorkers :
        /\ pc[w] = "lock_error"
        /\ op[w] = "decrement"
        /\ retryCount[w] = RETRY_CONFIG_MAX_RETRIES
        /\ timeout[w] = 11000
        /\ ledger.browserCount > 0

\* ================================================== the start of the fleet
\* SpecStart: every process of the fleet runs initializeGlobalProfileManager
\* (src/bot.js) once, in any interleaving, and a process that is through with
\* it opens browsers.  The operations of the manager are taken whole here;
\* their steps are those of SpecOps.  The Kameleo service holds no profile, so
\* the loop of cleanupOldProfiles has nothing to visit.

\* !clusterId: the value is falsy.  A non-empty string is truthy, '0'
\* included; a number is falsy when it is 0.
Falsy(id) == id[1] = "number" /\ id[2] = 0

\* globalBrowserManager.clusterId === '0' || !globalBrowserManager.clusterId
isMaster(w) == clusterId(w) = <<"string", 0>> \/ Falsy(clusterId(w))

\* What a run of cleanupDeadClusters() finds to write, at time t.
cleanupDeadClusters_result == _performClusterCleanup(readState, maxInactiveTime, now)

StartFrame ==
    UNCHANGED <<lockFile, pc, startTime, timeout, op, state, broken, staleBroken,
                retryCount, calls, workflowVars, schedVars, batchVars, fileVars, instanceVars>>

Called(w, o) == startCalls' = [startCalls EXCEPT ![w] = Append(@, o)]

\* initializeGlobalProfileManager: the test of the clusterId.
initializeGlobalProfileManager(w) ==
    /\ boot[w] = "start"
    /\ boot' = [boot EXCEPT ![w] = IF isMaster(w) THEN "resetCounters" ELSE "sleep"]
    /\ UNCHANGED <<now, ledger, result, startCalls>>
    /\ StartFrame

\* The master branch: await globalBrowserManager.resetCounters().  With the
\* lock or, acquireLock having thrown, through _forceResetCounters, the
\* document is the default state afterwards.
initialize_resetCounters(w) ==
    /\ boot[w] = "resetCounters"
    /\ ledger' = _getDefaultState
    /\ Called(w, "resetCounters")
    /\ boot' = [boot EXCEPT ![w] = "cleanupOldProfiles"]
    /\ UNCHANGED <<now, result>>
    /\ StartFrame

\* The master branch: await cleanupOldProfiles().  listProfiles returns no
\* profile and, after the loop, cleanupDeadClusters() is called: it writes when
\* it has cleaned something, or its acquireLock throws and it returns 0; or
\* listProfiles throws and cleanupOldProfiles returns from its catch.
initialize_cleanupOldProfiles(w) ==
    /\ boot[w] = "cleanupOldProfiles"
    /\ \/ LET r == cleanupDeadClusters_result
          IN /\ ledger' = IF r.cleanedCount > 0 THEN r.state ELSE ledger
             /\ result' = [result EXCEPT ![w] = r.cleanedCount]
             /\ Called(w, "cleanupDeadClusters")
       \/ /\ result' = [result EXCEPT ![w] = 0]
          /\ Called(w, "cleanupDeadClusters")
          /\ UNCHANGED ledger
       \/ /\ result' = [result EXCEPT ![w] = 0]
          /\ UNCHANGED <<ledger, startCalls>>
    /\ boot' = [boot EXCEPT ![w] = "ready"]
    /\ UNCHANGED now
    /\ StartFrame

\* The other branch: await HumanBehavior.sleep(1000).
initialize_sleep(w) ==
    /\ boot[w] = "sleep"
    /\ boot' = [boot EXCEPT ![w] = "cleanupDeadClusters"]
    /\ UNCHANGED <<now, ledger, result, startCalls>>
    /\ StartFrame

\* The other branch: await globalBrowserManager.cleanupDeadClusters().
initialize_cleanupDeadClusters(w) ==
    /\ boot[w] = "cleanupDeadClusters"
    /\ \/ LET r == cleanupDeadClusters_result
          IN /\ ledger' = IF r.cleanedCount > 0 THEN r.state ELSE ledger
             /\ result' = [result EXCEPT ![w] = r.cleanedCount]
       \/ /\ result' = [result EXCEPT ![w] = 0]
          /\ UNCHANGED ledger
    /\ Called(w, "cleanupDeadClusters")
    /\ boot' = [boot EXCEPT ![w] = "ready"]
    /\ UNCHANGED now
    /\ StartFrame

\* A process that is through with its initialization opens a browser:
\* incrementBrowserCount() with the lock obtained.
ready_incrementBrowserCount(w) ==
    /\ boot[w] = "ready"
    /\ ledger.browserCount < MaxCount
    /\ ledger' = _incrementStateCounters(readState, w, now)
    /\ result' = [result EXCEPT ![w] = ledger'.browserCount]
    /\ UNCHANGED <<now, startVars, batchVars, fileVars, instanceVars>>
    /\ StartFrame

NextStart ==
    \/ Tick
    \/ \E w \in Workers :
        \/ initializeGlobalProfileManager(w)
        \/ initialize_resetCounters(w)
        \/ initialize_cleanupOldProfiles(w)
        \/ initialize_sleep(w)
        \/ initialize_cleanupDeadClusters(w)
        \/ ready_incrementBrowserCount(w)

SpecStart == Init /\ [][NextStart]_vars

\* ------------------------------------------------- claims on the start
\* The process has no ordinal (no pm_id), or its ordinal is 0.
NoOrdinalOrZero(w) == pm_id(w) < 0 \/ pm_id(w) = 0

\* C21 as stated: a process with no pm_id or with pm_id 0 calls resetCounters
\* and never cleanupDeadClusters during its initialization, and every other
\* process calls cleanupDeadClusters only, never resetCounters.
C21_ResetByMasterReapByOthers ==
    \A w \in Workers :
        boot[w] = "ready" =>
            IF NoOrdinalOrZero(w)
            THEN startCalls[w] = <<"resetCounters">>
            ELSE startCalls[w] = <<"cleanupDeadClusters">>

\* ------------------------------------------------- a restart of the master
\* SpecRestart: SpecStart, and PM2 restarts the process that resets the
\* counters (max_restarts of src/ecosystem.config.cjs) while the other
\* processes keep running: the process runs start() of src/main.js, and so
\* initializeGlobalProfileManager, again, with the same pm_id.
pm2_restart(w) ==
    /\ isMaster(w)
    /\ boot[w] = "ready"
    /\ boot' = [boot EXCEPT ![w] = "start"]
    /\ startCalls' = [startCalls EXCEPT ![w] = <<>>]
    /\ UNCHANGED <<now, ledger, result>>
    /\ StartFrame

NextRestart ==
    \/ NextStart
    \/ \E w \in Workers : pm2_restart(w)

SpecRestart == Init /\ [][NextRestart]_vars

\* The step of w in which resetCounters writes the default state.
ResetStep(w) == boot[w] = "resetCounters" /\ boot'[w] = "cleanupOldProfiles"

\* C40 as stated: whenever resetCounters runs, no other process that is
\* through with its initialization holds a slot it has incremented for, so the
\* reset takes no held slot out of browserCount.
C40_ResetDiscardsNoLiveSlot ==
    [][\A w \in Workers :
         ResetStep(w) =>
            \A v \in Workers \ {w} :
               ~(boot[v] = "ready" /\ CountOf(ledger, v) > 0)]_vars

\* ======================================= batches that follow each other
\* SpecBatches: the process calls processAccountsInParallel again once a call
\* has returned (one call per processWorkFlow; this.accountProcessor is made
\* once, in the constructor of the worker).  The executor is the
\* AccountProcessor that keeps a global exit flag: setGlobalExitFlag and
\* getGlobalExitFlag are static, so the flag is a property of the class; it is
\* undefined, which is falsy, until it is set, and nothing sets it back.
MaxBatches == 2

\* The statuses processAccount gives a unit it does not process.
ExitStatuses == {"skipped-exit", "stopped-exit", "context-closed-exit"}

\* _processLogin returned shouldExit for a unit of the batch that is running:
\* the flag was set in this batch, which also closed the context of the batch.
ExitInThisBatch == \E j \in Accounts : critical[j]

\* What processAccount returns for a unit once getGlobalExitFlag() is true:
\* 'skipped-exit' from the check at its entry, 'stopped-exit' from the check at
\* the head of the retry loop; and in the batch whose context was closed a
\* Playwright call may throw 'Target page, context or browser has been
\* closed', which gives 'context-closed-exit'.
processAccount_exitStatuses(i) ==
    (IF timeoutRetryCount[i] = 0 THEN {"skipped-exit", "stopped-exit"} ELSE {"stopped-exit"})
        \cup (IF ExitInThisBatch THEN {"context-closed-exit"} ELSE {})

\* One step of processAccount of the AccountProcessor with the flag: the
\* checks of the flag, then the attempt.  The _processLogin of this class
\* returns {shouldExit: true, result} of status 'timeout-exit' whenever it
\* finds the timeout message on the last account, whatever timeoutRetryCount
\* is; processAccount then calls setGlobalExitFlag() and returns
\* finalResult.result.
processAccount_globalExitFlag(i) ==
    /\ loop # "returned"
    /\ unit[i] = "running"
    /\ IF globalExitFlag
       THEN /\ \E st \in processAccount_exitStatuses(i) :
                  Settle(i, accountPromise([status |-> st]))
            /\ UNCHANGED <<timeoutRetryCount, attempts, detected, critical, globalExitFlag>>
       ELSE /\ attempts' = [attempts EXCEPT ![i] = @ + 1]
            /\ \/ /\ \E st \in LoginStatuses :
                        Settle(i, accountPromise(processAccount([status |-> st])))
                  /\ UNCHANGED <<timeoutRetryCount, critical, detected, globalExitFlag>>
               \/ /\ NAccounts = i + 1
                  /\ detected' = [detected EXCEPT ![i] = @ + 1]
                  /\ Settle(i, accountPromise(processAccount(
                                  [shouldExit |-> TRUE,
                                   result |-> [status |-> "timeout-exit"]])))
                  /\ critical' = [critical EXCEPT ![i] = TRUE]
                  /\ globalExitFlag' = TRUE
                  /\ UNCHANGED timeoutRetryCount
               \/ /\ processAccount_retryErr(i)
                  /\ UNCHANGED <<critical, detected, globalExitFlag>>
    /\ UNCHANGED <<aborted, shouldExitGlobal, completedResults, activePromises, loop, trigger>>
    /\ UNCHANGED <<managerVars, startVars, batch, fileVars, instanceVars>>

\* _createAndLoadPage fails, which processAccount reaches only past the check
\* of the flag at its entry.
processAccount_createAndLoadPage_fails(i) ==
    /\ ~globalExitFlag
    /\ _createAndLoadPage_fails(i)

\* The next processWorkFlow of the process reaches _processAccountsStep:
\* processAccountsInParallel is called with the next accounts, and makes its
\* own AbortController, shouldExitGlobal and completedResults.
processAccountsInParallel_again ==
    /\ loop = "returned"
    /\ batch < MaxBatches
    /\ batch' = batch + 1
    /\ unit' = [i \in Accounts |-> IF i = 0 THEN "running" ELSE "delay"]
    /\ unitStatus' = [i \in Accounts |-> "none"]
    /\ timeoutRetryCount' = [i \in Accounts |-> 0]
    /\ attempts' = [i \in Accounts |-> 0]
    /\ detected' = [i \in Accounts |-> 0]
    /\ critical' = [i \in Accounts |-> FALSE]
    /\ aborted' = FALSE
    /\ shouldExitGlobal' = FALSE
    /\ completedResults' = <<>>
    /\ activePromises' = [k \in 1..NAccounts |-> k - 1]
    /\ raced' = -1
    /\ loop' = "race"
    /\ trigger' = -1
    /\ UNCHANGED <<managerVars, startVars, globalExitFlag, fileVars, instanceVars>>

NextBatches ==
    \/ raceLoop
    \/ Promise_allSettled
    \/ processAccountsInParallel_again
    \/ \E i \in Accounts :
        \/ startDelay(i)
        \/ processAccount_createAndLoadPage_fails(i)
        \/ processAccount_globalExitFlag(i)

SpecBatches == Init /\ [][NextBatches]_vars

\* ------------------------------------------------ claims on the batches
\* C23 as stated: what cancels belongs to one batch.  A batch begins with no
\* cancellation set, and a unit is given up as skipped or stopped only on
\* account of a critical exit of its own batch.
C23_CancellationBelongsToOneBatch ==
    /\ (\A i \in Accounts : unit[i] \in {"delay", "running"} /\ timeoutRetryCount[i] = 0)
            /\ loop = "race" /\ completedResults = <<>>
         => (~aborted /\ ~shouldExitGlobal /\ ~globalExitFlag)
    /\ \A i \in Accounts : unitStatus[i] \in ExitStatuses => ExitInThisBatch

\* ============================================= the document on the disk
\* SpecRound: the operations of the manager taken whole, the lock obtained,
\* with the document kept as the text writeState writes and readState parses.
\* `ledger` is here the state object that was handed to the last writeState.
\* A JSON text is kept as the tree of its tokens: a scalar with the JSON type it
\* is written in, an object as its members by key, the keys being strings.
JSON_number(n) == [json |-> "number", v |-> n]

JSON_string(x) == [json |-> "string", v |-> x]

\* Mutant of JSON_stringify_id: every clusterId written as a string.
JSON_stringify_id_AsString(id) == JSON_string(id[2])

\* JSON.stringify of a clusterId: a string is written as a JSON string, a
\* number as a JSON number.
JSON_stringify_id(id) == IF id[1] = "string" THEN JSON_string(id[2]) ELSE JSON_number(id[2])

\* JSON.parse of a scalar where a clusterId is expected.
JSON_parse_id(j) == IF j.json = "string" THEN <<"string", j.v>> ELSE <<"number", j.v>>

\* JSON.stringify(state, null, 2): the members of the state, of the profile
\* records and of the cluster records.  The keys of state.clusters are the
\* characters of the property keys.
JSON_stringify(s) ==
    [browserCount |-> JSON_number(s.browserCount),
     profiles |-> [p \in DOMAIN s.profiles |->
                     [clusterId |-> JSON_stringify_id(s.profiles[p].clusterId),
                      createdAt |-> JSON_number(s.profiles[p].createdAt)]],
     clusters |-> [k \in {x[2] : x \in DOMAIN s.clusters} |->
                     [count |-> JSON_number(s.clusters[<<"string", k>>].count),
                      lastActivity |-> JSON_number(s.clusters[<<"string", k>>].lastActivity)]],
     lastUpdated |-> JSON_number(s.lastUpdated)]

\* JSON.parse(data)
JSON_parse(text) ==
    [browserCount |-> text.browserCount.v,
     profiles |-> [p \in DOMAIN text.profiles |->
                     [clusterId |-> JSON_parse_id(text.profiles[p].clusterId),
                      createdAt |-> text.profiles[p].createdAt.v]],
     clusters |-> [k \in {<<"string", x>> : x \in DOMAIN text.clusters} |->
                     [count |-> text.clusters[k[2]].count.v,
                      lastActivity |-> text.clusters[k[2]].lastActivity.v]],
     lastUpdated |-> text.lastUpdated.v]

\* globalCount, perWorker and resources of a state.
Counts(s) == [browserCount |-> s.browserCount, profiles |-> s.profiles, clusters |-> s.clusters]

\* readStateWithoutLock: the parsed text, or _getDefaultState() when the file
\* is not there.
readStateWithoutLock ==
    IF document.exists THEN Counts(JSON_parse(document.text)) ELSE _getDefaultState

\* writeState(state): state.lastUpdated = Date.now(), then the text is written.
writeState_writeFile(s) ==
    /\ document' = [exists |-> TRUE,
                    text |-> JSON_stringify([browserCount |-> s.browserCount,
                                             profiles |-> s.profiles,
                                             clusters |-> s.clusters,
                                             lastUpdated |-> now])]
    /\ ledger' = s

RoundFrame ==
    UNCHANGED <<now, lockFile, pc, startTime, timeout, op, state, result, broken, staleBroken,
                retryCount, calls, workflowVars, schedVars, startVars, batchVars, instanceVars>>

incrementBrowserCount_writeState(w) ==
    /\ readStateWithoutLock.browserCount < MaxCount
    /\ CountOf(readStateWithoutLock, w) < MaxCount
    /\ writeState_writeFile(_incrementStateCounters(readStateWithoutLock, w, now))
    /\ RoundFrame

decrementBrowserCount_writeState(w) ==
    /\ writeState_writeFile(_decrementStateCounters(readStateWithoutLock, w, now))
    /\ RoundFrame

registerProfile_writeState(w) ==
    /\ \E p \in ProfileIds :
          /\ p \notin DOMAIN readStateWithoutLock.profiles
          /\ writeState_writeFile([readStateWithoutLock EXCEPT !.profiles =
                 Put(@, p, _createProfileRecord(w, now))])
    /\ RoundFrame

unregisterProfile_writeState(w) ==
    /\ \E p \in DOMAIN readStateWithoutLock.profiles :
          writeState_writeFile(unregisterProfile(readStateWithoutLock, p))
    /\ RoundFrame

cleanupDeadClusters_writeState(w) ==
    /\ LET r == _performClusterCleanup(readStateWithoutLock, maxInactiveTime, now)
       IN /\ r.cleanedCount > 0
          /\ writeState_writeFile(r.state)
    /\ RoundFrame

resetCounters_writeState(w) ==
    /\ isMaster(w)
    /\ document.exists
    /\ writeState_writeFile(_getDefaultState)
    /\ RoundFrame

TickRound ==
    /\ now < ReapTicks * ReapTickMs
    /\ now' = now + ReapTickMs
    /\ UNCHANGED <<lockFile, ledger, pc, startTime, timeout, op, state, result, broken,
                   staleBroken, retryCount, calls, workflowVars, schedVars, startVars,
                   batchVars, fileVars, instanceVars>>

\* The processes of SpecRound: the one with pm_id '0' and the one with no
\* pm_id, whose clusterId is a number.
RoundWorkers == {1, NWorkers}

NextRound ==
    \/ TickRound
    \/ \E w \in RoundWorkers :
        \/ incrementBrowserCount_writeState(w)
        \/ decrementBrowserCount_writeState(w)
        \/ registerProfile_writeState(w)
        \/ unregisterProfile_writeState(w)
        \/ cleanupDeadClusters_writeState(w)
        \/ resetCounters_writeState(w)

SpecRound == Init /\ [][NextRound]_vars

NextAcquire ==
    \/ NextLock
    \/ \E w \in Workers : acquireLock_writeFile_error(w)

acquireLock_step(w) ==
    \/ acquireLock_writeFile(w)
    \/ _handleStaleLock_stat(w)
    \/ _handleStaleLock_unlink(w)

SpecAcquire ==
    /\ Init
    /\ [][NextAcquire]_vars
    /\ WF_vars(TickLock)
    /\ \A w \in Workers : WF_vars(acquireLock_step(w))

\* ----------------------------------------------- claims on acquireLock
\* The process is inside acquireLock.
InAcquireLock(w) == pc[w] \in {"acq_write", "acq_retry", "acq_stat", "acq_unlink"}

\* The step in which acquireLock of w returns or throws.
AcquireLockEnds(w) == InAcquireLock(w) /\ ~InAcquireLock(w)'

\* acquireLock returns true on the step in which its own exclusive create made
\* the token.
ReturnsHeld(w) ==
    /\ pc'[w] = "held"
    /\ pc[w] \in {"acq_write", "acq_retry"}
    /\ lockFile = NoLock
    /\ lockFile' # NoLock
    /\ lockFile'.content = instanceId(w)

\* acquireLock throws 'Could not acquire lock after ${timeout}ms': the loop
\* condition has found the elapsed time at or above the timeout.
ThrowsTimeout(w) ==
    /\ pc'[w] = "lock_error"
    /\ now - startTime[w] >= timeout[w]
    /\ lockFile' = lockFile

\* acquireLock rethrows the error of the exclusive create, the timeout not
\* having run out.
ThrowsWriteError(w) ==
    /\ pc'[w] = "lock_error"
    /\ pc[w] \in {"acq_write", "acq_retry"}
    /\ now - startTime[w] < timeout[w]
    /\ lockFile' = lockFile

\* The call was made early enough for the clock of the model to pass its
\* timeout.
ClockCanPass(w) == startTime[w] + timeout[w] <= MaxTicks * LockTickMs

\* A call of acquireLock comes to an end.
AcquireLockTerminates ==
    \A w \in Workers : (InAcquireLock(w) /\ ClockCanPass(w)) ~> ~InAcquireLock(w)

\* C24 as stated: acquireLock always terminates, and it ends in one of two
\* ways: it returns, having created the token with its own id itself, or it
\* throws the timeout error once the elapsed time has reached the timeout.
C24_HeldOrTimeout ==
    /\ [][\A w \in Workers : AcquireLockEnds(w) => (ReturnsHeld(w) \/ ThrowsTimeout(w))]_vars
    /\ AcquireLockTerminates

\* C24, amended: acquireLock always terminates, in one of three ways: it
\* returns, having created the token with its own id itself; it throws the
\* timeout error once the elapsed time has reached the timeout; or it rethrows
\* at once the error of an exclusive create that failed with a code other than
\* EEXIST.  A token that is found stale and removed, again and again, does not
\* keep it from ending.
C24_HeldOrTimeoutOrWriteError ==
    /\ [][\A w \in Workers :
            AcquireLockEnds(w) => (ReturnsHeld(w) \/ ThrowsTimeout(w) \/ ThrowsWriteError(w))]_vars
    /\ AcquireLockTerminates

\* A process is inside acquireLock, past its timeout, after a stale token was
\* removed, while another process holds the lock: its next step ends the call.
C24_Witness ==
    \E w \in Workers, h \in Workers :
        /\ pc[w] = "acq_write"
        /\ now - startTime[w] >= timeout[w]
        /\ ClockCanPass(w)
        /\ staleBroken
        /\ pc[h] = "held"

\* ============================================ the instance and its shutdown
\* SpecShutdown: the workflows of PSNInstance (src/main.js) as far as they
\* count profiles in browserStats, and gracefulShutdown, the handler of SIGINT
\* and SIGTERM, which runs between two steps of a workflow.  Every call of
\* decrementBrowserCount gets the lock here.
MaxProfiles == 2     \* the profiles a process creates

ShutdownFrame ==
    UNCHANGED <<now, lockFile, startTime, timeout, op, state, result, broken, staleBroken,
                retryCount, calls, workflowVars, schedVars, startVars, batchVars, fileVars, socketVars>>

\* _createProfileStep: createProfile returns the profile data, having
\* incremented the count within the limit; then profilesCreated++.
_createProfileStep(w) ==
    /\ pc[w] = "idle"
    /\ browserStats[w].profilesCreated < MaxProfiles
    /\ canCreateNewBrowser
    /\ ledger' = _incrementStateCounters(readState, w, now)
    /\ browserStats' = [browserStats EXCEPT ![w].profilesCreated = @ + 1]
    /\ held' = [held EXCEPT ![w] = @ + 1]
    /\ pc' = [pc EXCEPT ![w] = "holding"]
    /\ UNCHANGED drained
    /\ ShutdownFrame

\* _executeWorkflowSteps returns without _cleanupStep (no accounts), or throws
\* after the profile was created and _handleWorkflowError finds its
\* profileData null: closeProfileSafely is not called.
_executeWorkflowSteps_return(w) ==
    /\ pc[w] = "holding"
    /\ pc' = [pc EXCEPT ![w] = "idle"]
    /\ UNCHANGED <<ledger, browserStats, held, drained>>
    /\ ShutdownFrame

\* _cleanupStep: closeProfileSafely, whose context.close() succeeds;
\* ProfileManager.closeProfile calls decrementBrowserCount once, at the end of
\* its try or in its catch, and does not throw; then profilesClosed++.
_cleanupStep(w) ==
    /\ pc[w] = "holding"
    /\ ledger' = _decrementStateCounters(readState, w, now)
    /\ browserStats' = [browserStats EXCEPT ![w].profilesClosed = @ + 1]
    /\ held' = [held EXCEPT ![w] = @ - 1]
    /\ pc' = [pc EXCEPT ![w] = "idle"]
    /\ UNCHANGED drained
    /\ ShutdownFrame

\* closeProfileSafely, whose own profileData.context.close() throws: the catch
\* calls profileData.globalManager.decrementBrowserCount(); profilesClosed is
\* left as it is.
closeProfileSafely_catch(w) ==
    /\ pc[w] = "holding"
    /\ ledger' = _decrementStateCounters(readState, w, now)
    /\ held' = [held EXCEPT ![w] = @ - 1]
    /\ pc' = [pc EXCEPT ![w] = "idle"]
    /\ UNCHANGED <<browserStats, drained>>
    /\ ShutdownFrame

\* The loop of gracefulShutdown: n calls of decrementBrowserCount.
RECURSIVE decrementLoop(_, _, _, _)
decrementLoop(s, w, t, n) ==
    IF n <= 0 THEN s ELSE decrementLoop(_decrementStateCounters(s, w, t), w, t, n - 1)

\* gracefulShutdown: activeProfiles = profilesCreated - profilesClosed, one
\* decrementBrowserCount for each, then process.exit(0).
gracefulShutdown(w) ==
    /\ pc[w] \in {"idle", "holding"}
    /\ LET activeProfiles == browserStats[w].profilesCreated - browserStats[w].profilesClosed
       IN /\ ledger' = decrementLoop(readState, w, now, activeProfiles)
          /\ drained' = [drained EXCEPT ![w] = activeProfiles]
    /\ pc' = [pc EXCEPT ![w] = "exited"]
    /\ UNCHANGED <<browserStats, held>>
    /\ ShutdownFrame

NextShutdown ==
    \E w \in Fleet :
        \/ _createProfileStep(w)
        \/ _executeWorkflowSteps_return(w)
        \/ _cleanupStep(w)
        \/ closeProfileSafely_catch(w)
        \/ gracefulShutdown(w)

SpecShutdown == Init /\ [][NextShutdown]_vars

\* C32 as stated: once gracefulShutdown of a process is over, the decrements
\* it issued are as many as the slots the process had acquired and not yet
\* released, also when a close of a profile had gone through the catch of
\* closeProfileSafely.
C32_ShutdownDrainsTheSlotsHeld ==
    \A w \in Fleet : pc[w] = "exited" => drained[w] = held[w]

\* =================================== the registry and a read that fails
\* SpecRegistry: SpecOps, and the read of the document inside registerProfile
\* or unregisterProfile fails (fs.readFile throws, or JSON.parse does on a
\* text that is no JSON): readStateWithoutLock catches the error and returns
\* _getDefaultState().
registerProfile_readState_error(w) ==
    /\ pc[w] = "held"
    /\ op[w] = "register"
    /\ state' = [state EXCEPT ![w] =
                    [_getDefaultState EXCEPT !.profiles =
                        Put(_getDefaultState.profiles, w, _createProfileRecord(w, now))]]
    /\ pc' = [pc EXCEPT ![w] = "write"]
    /\ UNCHANGED <<now, lockFile, ledger, startTime, timeout, op, result, broken,
                   staleBroken, retryCount>>
    /\ UNCHANGED <<calls, workflowVars, schedVars, startVars, batchVars, fileVars, instanceVars>>

\* The default state has no profile: nothing is deleted, nothing written.
unregisterProfile_readState_error(w) ==
    /\ pc[w] = "held"
    /\ op[w] = "unregister"
    /\ IF w \in DOMAIN _getDefaultState.profiles
       THEN /\ state' = [state EXCEPT ![w] = unregisterProfile(_getDefaultState, w)]
            /\ pc' = [pc EXCEPT ![w] = "write"]
       ELSE /\ pc' = [pc EXCEPT ![w] = "rel_read"]
            /\ UNCHANGED state
    /\ UNCHANGED <<now, lockFile, ledger, startTime, timeout, op, result, broken,
                   staleBroken, retryCount>>
    /\ UNCHANGED <<calls, workflowVars, schedVars, startVars, batchVars, fileVars, instanceVars>>

NextRegistry ==
    \/ NextOps
    \/ \E w \in OpsWorkers :
        \/ registerProfile_readState_error(w)
        \/ unregisterProfile_readState_error(w)

SpecRegistry == Init /\ [][NextRegistry]_vars

\* C33 as stated: no step of registerProfile or of unregisterProfile, whether
\* the call succeeds or fails and also when its read of the document fails,
\* changes browserCount or the count of any cluster.
C33_RegistryLeavesTheCounts ==
    [][\A w \in OpsWorkers :
         (op[w] \in {"register", "unregister"} /\ pc'[w] # pc[w]) =>
            /\ ledger'.browserCount = ledger.browserCount
            /\ \A v \in Workers : CountOf(ledger', v) = CountOf(ledger, v)]_vars

\* ============================================== the counters on their own
\* SpecCounters: the processes call incrementBrowserCount and
\* decrementBrowserCount only, step by step as in SpecOps; no process dies, no
\* cleanupDeadClusters and no resetCounters runs.  A process may be slow: the
\* clock may pass between any two of its steps.
NextCounters ==
    \/ TickLock
    \/ \E w \in OpsWorkers :
        \/ incrementBrowserCount_acquireLock(w)
        \/ decrementBrowserCount_acquireLock(w)
        \/ acquireLock_writeFile(w)
        \/ _handleStaleLock_stat(w)
        \/ _handleStaleLock_unlink(w)
        \/ counter_readState(w)
        \/ writeState(w)
        \/ releaseLock_readFile(w)
        \/ releaseLock_unlink(w)
        \/ counter_lockError(w)

SpecCounters == Init /\ [][NextCounters]_vars

\* The step of w in which writeState of a counter operation writes the
\* document.
CounterWrite(w) == op[w] \in CounterOps /\ pc[w] = "write" /\ pc'[w] = "rel_read"

\* The decrement of w met no floor: the counts of the document are above 0
\* and, where a token was removed as stale and the counts it read may be older
\* ones, so are the counts it is about to write.
MetNoFloor(w) ==
    /\ op[w] = "decrement"
    /\ ledger.browserCount >= 1 /\ CountOf(ledger, w) >= 1
    /\ staleBroken => (state[w].browserCount >= 1 /\ CountOf(state[w], w) >= 1)

WorkflowFrame ==
    UNCHANGED <<managerVars, schedVars, startVars, batchVars, fileVars,
                browserStats, held, drained>>

Running == {k \in Invocations : workflow[k] # "none"}

SetTimer(kind) == [timers EXCEPT ![kind] = @ + 1]
ClearTimer(kind) == [timers EXCEPT ![kind] = @ - 1]

\* processWorkFlow up to its first await: the two guards, then
\* isProcessing = true and the invocation is in _executeWorkflowSteps.
processWorkFlow ==
    IF isProcessing \/ ~connected \/ ~registered
    THEN UNCHANGED <<isProcessing, workflow>>
    ELSE /\ isProcessing' = TRUE
         /\ \E k \in Invocations :
               /\ workflow[k] = "none"
               /\ \A j \in Invocations : j < k => workflow[j] # "none"
               /\ workflow' = [workflow EXCEPT ![k] = "steps"]

\* socket.on("connect"): connected = true, registerInstance emits
\* register-instance.
on_connect ==
    /\ ~connected
    /\ connected' = TRUE
    /\ registering' = registering + 1
    /\ UNCHANGED <<registered, isProcessing, timers, workflow>>
    /\ WorkflowFrame

\* socket.on("disconnect"): the three flags are cleared; what the server had
\* still to answer on the connection is lost.
on_disconnect ==
    /\ connected
    /\ connected' = FALSE
    /\ registered' = FALSE
    /\ isProcessing' = FALSE
    /\ registering' = 0
    /\ UNCHANGED <<timers, workflow>>
    /\ WorkflowFrame

\* socket.on("registration-confirmed"): registered = true and a timer of
\* 2000 ms that calls processWorkFlow.
on_registration_confirmed ==
    /\ connected
    /\ registering > 0
    /\ timers.confirmed < MaxTimers
    /\ registering' = registering - 1
    /\ registered' = TRUE
    /\ timers' = SetTimer("confirmed")
    /\ UNCHANGED <<connected, isProcessing, workflow>>
    /\ WorkflowFrame

\* socket.on("registration-error"): registered = false.
on_registration_error ==
    /\ connected
    /\ registering > 0
    /\ registering' = registering - 1
    /\ registered' = FALSE
    /\ UNCHANGED <<connected, isProcessing, timers, workflow>>
    /\ WorkflowFrame

\* The timer of registration-confirmed fires: processWorkFlow().
registration_confirmed_timer ==
    /\ timers.confirmed > 0
    /\ timers' = ClearTimer("confirmed")
    /\ processWorkFlow
    /\ UNCHANGED <<connected, registered, registering>>
    /\ WorkflowFrame

\* The timer of results-acknowledged fires: processWorkFlow() if connected,
\* registered and not processing.
results_acknowledged_timer ==
    /\ timers.acknowledged > 0
    /\ timers' = ClearTimer("acknowledged")
    /\ IF connected /\ registered /\ ~isProcessing
       THEN processWorkFlow
       ELSE UNCHANGED <<isProcessing, workflow>>
    /\ UNCHANGED <<connected, registered, registering>>
    /\ WorkflowFrame

\* A retry timer fires (_requestProxyStep, _createProfileStep,
\* _requestAccountsStep, _handleWorkflowError): processWorkFlow() if connected
\* and registered.
retry_timer ==
    /\ timers.retry > 0
    /\ timers' = ClearTimer("retry")
    /\ IF connected /\ registered
       THEN processWorkFlow
       ELSE UNCHANGED <<isProcessing, workflow>>
    /\ UNCHANGED <<connected, registered, registering>>
    /\ WorkflowFrame

\* A step of _executeWorkflowSteps fails: it sets a retry timer and returns
\* null, or it throws and _handleWorkflowError sets the retry timer; then the
\* finally block: isProcessing = false.
_executeWorkflowSteps_fails(k) ==
    /\ workflow[k] \in {"steps", "submitted"}
    /\ timers.retry < MaxTimers
    /\ timers' = SetTimer("retry")
    /\ isProcessing' = FALSE
    /\ workflow' = [workflow EXCEPT ![k] = "none"]
    /\ UNCHANGED <<connected, registered, registering>>
    /\ WorkflowFrame

\* _submitResultsStep: the steps before it succeeded; submit-results is
\* emitted and the invocation waits for results-acknowledged.
_submitResultsStep(k) ==
    /\ workflow[k] = "steps"
    /\ workflow' = [workflow EXCEPT ![k] = "submitted"]
    /\ UNCHANGED <<connected, registered, isProcessing, registering, timers>>
    /\ WorkflowFrame

\* socket.on("results-acknowledged"): the handler of setupSocketEvents sets
\* its timer of 3000 ms, onAcknowledged resolves the submission and the
\* invocation goes on to _cleanupStep.
on_results_acknowledged(k) ==
    /\ connected
    /\ workflow[k] = "submitted"
    /\ timers.acknowledged < MaxTimers
    /\ timers' = SetTimer("acknowledged")
    /\ workflow' = [workflow EXCEPT ![k] = "cleanup"]
    /\ UNCHANGED <<connected, registered, isProcessing, registering>>
    /\ WorkflowFrame

\* _cleanupStep has returned; the finally block of processWorkFlow:
\* isProcessing = false.
processWorkFlow_finallyBlock(k) ==
    /\ workflow[k] = "cleanup"
    /\ isProcessing' = FALSE
    /\ workflow' = [workflow EXCEPT ![k] = "none"]
    /\ UNCHANGED <<connected, registered, registering, timers>>
    /\ WorkflowFrame

NextWorkflow ==
    \/ on_connect
    \/ on_disconnect
    \/ on_registration_confirmed
    \/ on_registration_error
    \/ registration_confirmed_timer
    \/ results_acknowledged_timer
    \/ retry_timer
    \/ \E k \in Invocations :
        \/ _executeWorkflowSteps_fails(k)
        \/ _submitResultsStep(k)
        \/ on_results_acknowledged(k)
        \/ processWorkFlow_finallyBlock(k)

SpecWorkflow == Init /\ [][NextWorkflow]_vars

\* C37 as stated: at most one invocation of processWorkFlow of a process is
\* between isProcessing = true and its finally block at any time, whatever
\* the order of the socket events and of the timers.
C37_OneWorkflowAtATime ==
    Cardinality(Running) <= 1

====
